---------------------------- MODULE Spec2Model ----------------------------
(***************************************************************************)
(* A model of the WhatsApp bridge daemon (whatsapp-bridge): the identifier *)
(* codec (jid.go), the SQLite store's upsert policies (store.go), the      *)
(* event handlers (events), the session manager's connect/reconnect path   *)
(* and the deep-sync guard (client.go, handlers.go).                       *)
(*                                                                         *)
(* Go strings on which the code performs string operations are modelled as *)
(* sequences of one-character strings; SQL NULL / a nil pointer is the     *)
(* empty set and a present value x is the singleton {x}.                   *)
(***************************************************************************)
EXTENDS Integers, Sequences, FiniteSets, TLC

VARIABLES
    \* ---- identifier codec (jid.go), one round trip per behaviour
    cFromMe,      \* input: fromMe
    cJID,         \* input: the chat JID as the protocol library gives it
    cRaw,         \* input: the raw message id
    cID,          \* formatMessageID(...) of the input, once computed
    cParts,       \* parseMessageIDParts(cID), once computed
    cBack,        \* formatMessageID of the parsed parts, once computed
    cStage,       \* "input" | "formatted" | "parsed" | "reformatted"
    \* ---- store (store.go)
    contacts,     \* table contacts: jid -> row
    chats,        \* table chats: jid -> row
    messages,     \* table messages: id -> row
    lastCall,     \* the store call or event handled by the last step (history)
    \* ---- session manager (client.go)
    status,       \* wc.status
    qrCode,       \* wc.qrCode (nil or a code)
    paired,       \* wc.client.Store.ID != nil
    link,         \* the protocol client's connection: "down" | "open" | "authed"
    onceDone,     \* wc.handlerOnce has fired
    handlers,     \* number of event handlers registered with the protocol client
    reconnecting, \* wc.reconnecting is locked
    rpc,          \* goroutine -> position in reconnect()
    rtrace,       \* goroutine -> the calls its current reconnect() has made
    mainpc,       \* position of main()'s initial Connect()
    dispatched,   \* handleEvent invocations caused by the last protocol event
    qrChan,       \* a goroutine of Connect() is reading the QR channel
    syncState,    \* table sync_state: key -> value (nil when absent)
    \* ---- deep sync (client.go, handlers.go)
    dsp,          \* deepSyncProgress
    hpc,          \* request -> position in handleDeepSync
    hrun,         \* request -> the value of Running it read, while it is served
    resp,         \* request -> HTTP answer
    dpc,          \* request -> position of the DeepSync goroutine it spawned
    dloc,         \* request -> that goroutine's locals
    histReqs,     \* request -> history requests its goroutine has issued
    now,          \* time.Now(), Unix seconds
    \* ---- full-text index (appSchema) and HTTP API (handlers.go)
    fts,          \* messages_fts: the indexed <<message id, body>> entries
    wire,         \* protocol requests the served operation has emitted
    reply,        \* the answer of the served operation
    tx            \* DeleteChat's open transaction (nil when none)

codecVars == <<cFromMe, cJID, cRaw, cID, cParts, cBack, cStage>>
storeVars == <<contacts, chats, messages, lastCall, fts>>
sessVars == <<status, qrCode, paired, link, onceDone, handlers,
               reconnecting, rpc, rtrace, mainpc, dispatched, qrChan, syncState>>
syncVars == <<dsp, hpc, hrun, resp, dpc, dloc, histReqs, now>>
apiVars == <<wire, reply, tx>>
vars == <<codecVars, storeVars, sessVars, syncVars, apiVars>>

-----------------------------------------------------------------------------
(* Bounds of the model. *)

\* Largest message timestamp an event or a store call carries.
MaxTs == 3
\* Unread counters are not driven past this value.
MaxUnread == 2
\* Number of fragments a raw message id of the codec input is built from.
MaxRawParts == 2
\* Goroutines that may run reconnect() at the same time.
NumReconnectors == 3
\* Concurrent POST /deep-sync requests.
NumRequests == 2
\* Messages a chat may receive while a deep sync runs.
MaxArrivals == 1
\* The clock stops advancing here.
MaxNow == 2

-----------------------------------------------------------------------------
(* Nullable values. *)

Nil == {}
Some(x) == {x}
Val(o) == CHOOSE x \in o : TRUE

Min(S) == CHOOSE x \in S : \A y \in S : x <= y

-----------------------------------------------------------------------------
(* Go's strings package, as the codec uses it. *)

EmptyStr == << >>

\* strings.HasSuffix
HasSuffix(s, suf) ==
    /\ Len(s) >= Len(suf)
    /\ SubSeq(s, Len(s) - Len(suf) + 1, Len(s)) = suf

\* strings.TrimSuffix
TrimSuffix(s, suf) ==
    IF HasSuffix(s, suf) THEN SubSeq(s, 1, Len(s) - Len(suf)) ELSE s

\* strings.Index: the 0-based offset of the first occurrence, or -1
Index(s, sub) ==
    LET hits == {i \in 0..(Len(s) - Len(sub)) : SubSeq(s, i + 1, i + Len(sub)) = sub}
    IN  IF hits = {} THEN -1 ELSE Min(hits)

\* s[:n] and s[n:] of Go (0-based, end exclusive)
Prefix(s, n) == SubSeq(s, 1, n)
Suffix(s, n) == SubSeq(s, n + 1, Len(s))

Underscore == <<"_">>
AtCUS == <<"@", "c", ".", "u", "s">>
AtGUS == <<"@", "g", ".", "u", "s">>
AtWA == <<"@", "s", ".", "w", "h", "a", "t", "s", "a", "p", "p", ".", "n", "e", "t">>
AtLID == <<"@", "l", "i", "d">>
AtBroadcast == <<"@", "b", "r", "o", "a", "d", "c", "a", "s", "t">>
StrTrue == <<"t", "r", "u", "e">>
StrFalse == <<"f", "a", "l", "s", "e">>

-----------------------------------------------------------------------------
(* jid.go *)

\* A conversion that leaves the address as it is.
KeepJID(jid) == jid

toAPIJIDString(jid) ==
    IF HasSuffix(jid, AtWA) THEN TrimSuffix(jid, AtWA) \o AtCUS ELSE jid

toInternalJID(apiJID) ==
    IF HasSuffix(apiJID, AtCUS) THEN TrimSuffix(apiJID, AtCUS) \o AtWA ELSE apiJID

extractNumber(jid) ==
    LET at == Index(jid, <<"@">>)
    IN  IF at = -1 THEN jid ELSE Prefix(jid, at)

\* The suffix tokens parseMessageIDParts looks for, in the order of its loop.
MessageIDDomains == <<AtCUS \o Underscore, AtGUS \o Underscore, AtWA \o Underscore>>

parseMessageIDParts(id) ==
    LET firstUnderscore == Index(id, Underscore)
        fromMeStr == Prefix(id, firstUnderscore)
        rest == Suffix(id, firstUnderscore + 1)
        found == {k \in DOMAIN MessageIDDomains : Index(rest, MessageIDDomains[k]) # -1}
        domain == MessageIDDomains[Min(found)]
        idx == Index(rest, domain)
        chatJID == IF found = {} THEN EmptyStr ELSE Prefix(rest, idx + Len(domain) - 1)
        messageID == IF found = {} THEN EmptyStr ELSE Suffix(rest, idx + Len(domain))
    IN  IF firstUnderscore = -1 THEN Nil
        ELSE IF chatJID = EmptyStr \/ messageID = EmptyStr THEN Nil
        ELSE Some([fromMe    |-> fromMeStr = StrTrue,
                   chatJID   |-> chatJID,
                   messageID |-> messageID])

formatMessageID(fromMe, chatJID, messageID) ==
    (IF fromMe THEN StrTrue ELSE StrFalse) \o Underscore \o chatJID \o Underscore \o messageID

-----------------------------------------------------------------------------
(* The codec round trip: the event pipeline formats an identifier          *)
(* (processWebMessage, handleMessage), later requests parse it back         *)
(* (GetOldestMessage, handleReact, handleSend, handleMarkRead).             *)

\* Chat JIDs as the protocol library emits them: a user, a group, a LID
\* and the broadcast address.
ChatJIDs ==
    { <<"1">> \o AtWA, <<"2">> \o AtGUS, <<"3">> \o AtLID,
      <<"s", "t", "a", "t", "u", "s">> \o AtBroadcast }

\* Raw message ids are opaque ASCII: built here from plain characters,
\* underscores and the suffix tokens the parser searches for.
RawFragments == { <<"A">>, <<"B">>, Underscore, AtCUS \o Underscore, AtGUS \o Underscore }

RECURSIVE RawIDsOf(_)
RawIDsOf(n) ==
    IF n = 0 THEN {EmptyStr}
    ELSE LET shorter == RawIDsOf(n - 1)
         IN  shorter \cup {r \o f : r \in shorter, f \in RawFragments}

RawIDs == RawIDsOf(MaxRawParts) \ {EmptyStr}

CodecIdle ==
    /\ cFromMe = FALSE
    /\ cJID = EmptyStr
    /\ cRaw = EmptyStr
    /\ cID = Nil
    /\ cParts = Nil
    /\ cBack = Nil
    /\ cStage = "idle"

CodecInit ==
    /\ cFromMe \in BOOLEAN
    /\ cJID \in ChatJIDs
    /\ cRaw \in RawIDs
    /\ cID = Nil
    /\ cParts = Nil
    /\ cBack = Nil
    /\ cStage = "input"

\* formattedID := formatMessageID(fromMe, toAPIJIDString(chatJID), rawMsgID)
CodecFormat ==
    /\ cStage = "input"
    /\ cID' = Some(formatMessageID(cFromMe, toAPIJIDString(cJID), cRaw))
    /\ cStage' = "formatted"
    /\ UNCHANGED <<cFromMe, cJID, cRaw, cParts, cBack>>

\* parts := parseMessageIDParts(id)
CodecParse ==
    /\ cStage = "formatted"
    /\ cParts' = parseMessageIDParts(Val(cID))
    /\ cStage' = "parsed"
    /\ UNCHANGED <<cFromMe, cJID, cRaw, cID, cBack>>

\* the parts formatted again
CodecReformat ==
    /\ cStage = "parsed"
    /\ cParts # Nil
    /\ cBack' = Some(formatMessageID(Val(cParts).fromMe, Val(cParts).chatJID,
                                     Val(cParts).messageID))
    /\ cStage' = "reformatted"
    /\ UNCHANGED <<cFromMe, cJID, cRaw, cID, cParts>>


-----------------------------------------------------------------------------
(* store.go.  A table is a function from its primary key to a row; the     *)
(* updated_at columns, which the code writes and never reads, are left     *)
(* out.                                                                     *)

EmptyTable == << >>

\* INSERT OR REPLACE: every column takes the incoming value.
UpsertContactReplace(t, jid, name, pushName, number, isGroup) ==
    [k \in DOMAIN t \cup {jid} |->
        IF k = jid
        THEN [name |-> name, pushName |-> pushName, number |-> number, isGroup |-> isGroup]
        ELSE t[k]]

\* INSERT INTO contacts ... ON CONFLICT(jid) DO UPDATE SET ...
UpsertContact(t, jid, name, pushName, number, isGroup) ==
    IF jid \in DOMAIN t
    THEN [t EXCEPT ![jid] =
            [name     |-> IF name # EmptyStr THEN name ELSE @.name,
             pushName |-> IF pushName # EmptyStr THEN pushName ELSE @.pushName,
             number   |-> IF number # EmptyStr THEN number ELSE @.number,
             isGroup  |-> isGroup]]
    ELSE t @@ (jid :> [name |-> name, pushName |-> pushName,
                       number |-> number, isGroup |-> isGroup])

\* INSERT INTO contacts (jid, push_name, updated_at) ... ON CONFLICT DO UPDATE
UpdatePushName(t, jid, pushName) ==
    IF jid \in DOMAIN t
    THEN [t EXCEPT ![jid].pushName = IF pushName # EmptyStr THEN pushName ELSE @]
    ELSE t @@ (jid :> [name |-> EmptyStr, pushName |-> pushName,
                       number |-> EmptyStr, isGroup |-> FALSE])

\* The name a contact row gives for an address: its name, else its push
\* name; the empty string when there is no row.
GetContactName(t, jid) ==
    IF jid \notin DOMAIN t THEN EmptyStr
    ELSE IF t[jid].name # EmptyStr THEN t[jid].name
    ELSE t[jid].pushName

\* The comparison with >= in place of >: an equal timestamp overwrites.
LastMessageAdvancesOrEqual(storedTs, lastMsgTs) ==
    /\ lastMsgTs # Nil
    /\ (storedTs = Nil \/ Val(lastMsgTs) >= Val(storedTs))

\* excluded.last_msg_ts IS NOT NULL AND
\*   (chats.last_msg_ts IS NULL OR excluded.last_msg_ts > chats.last_msg_ts)
LastMessageAdvances(storedTs, lastMsgTs) ==
    /\ lastMsgTs # Nil
    /\ (storedTs = Nil \/ Val(lastMsgTs) > Val(storedTs))

\* INSERT INTO chats ... ON CONFLICT(jid) DO UPDATE SET ...
UpsertChat(t, jid, name, isGroup, lastMsg, lastMsgTs) ==
    IF jid \in DOMAIN t
    THEN [t EXCEPT ![jid] =
            [name        |-> IF name # EmptyStr THEN name ELSE @.name,
             isGroup     |-> isGroup,
             unreadCount |-> @.unreadCount,
             lastMessage |-> IF LastMessageAdvances(@.lastMsgTs, lastMsgTs)
                             THEN lastMsg ELSE @.lastMessage,
             lastMsgTs   |-> IF LastMessageAdvances(@.lastMsgTs, lastMsgTs)
                             THEN lastMsgTs ELSE @.lastMsgTs]]
    ELSE t @@ (jid :> [name |-> name, isGroup |-> isGroup, unreadCount |-> 0,
                       lastMessage |-> lastMsg, lastMsgTs |-> lastMsgTs])

\* The unread counter of a chat, 0 when the chat has no row.
UnreadOf(t, jid) == IF jid \in DOMAIN t THEN t[jid].unreadCount ELSE 0

\* An IncrementUnread that counts a message twice.
IncrementUnreadTwice(t, chatJID) ==
    IF chatJID \in DOMAIN t
    THEN [t EXCEPT ![chatJID].unreadCount = @ + 2]
    ELSE t

\* UPDATE chats SET unread_count = unread_count + 1 WHERE jid = ?
IncrementUnread(t, chatJID) ==
    IF chatJID \in DOMAIN t
    THEN [t EXCEPT ![chatJID].unreadCount = @ + 1]
    ELSE t

\* A SetUnread that adds the count to the stored one.
SetUnreadAdd(t, chatJID, count) ==
    IF chatJID \in DOMAIN t
    THEN [t EXCEPT ![chatJID].unreadCount = @ + count]
    ELSE t

\* UPDATE chats SET unread_count = ? WHERE jid = ?
SetUnread(t, chatJID, count) ==
    IF chatJID \in DOMAIN t
    THEN [t EXCEPT ![chatJID].unreadCount = count]
    ELSE t

\* UPDATE chats SET unread_count = 0 WHERE jid = ?
MarkRead(t, chatJID) ==
    IF chatJID \in DOMAIN t
    THEN [t EXCEPT ![chatJID].unreadCount = 0]
    ELSE t

\* UPDATE chats SET last_message = ?, last_msg_ts = ? WHERE jid = ?
UpdateChatLastMessage(t, chatJID, body, timestamp) ==
    IF chatJID \in DOMAIN t
    THEN [t EXCEPT ![chatJID].lastMessage = Some(body),
                   ![chatJID].lastMsgTs = Some(timestamp)]
    ELSE t

\* The conflict clause with the media columns merged like the text columns:
\* an incoming NULL keeps the stored media type and bytes.
UpsertMessageMergeMedia(t, id, chatJID, senderJID, senderName, fromMe, body, timestamp, hasMedia, mediaType, rawProto) ==
    IF id \in DOMAIN t
    THEN [t EXCEPT ![id] =
            [chatJID    |-> @.chatJID,
             senderJID  |-> @.senderJID,
             senderName |-> IF senderName # EmptyStr THEN senderName ELSE @.senderName,
             fromMe     |-> @.fromMe,
             body       |-> IF body # EmptyStr THEN body ELSE @.body,
             timestamp  |-> @.timestamp,
             hasMedia   |-> hasMedia \/ @.hasMedia,
             mediaType  |-> IF mediaType # Nil THEN mediaType ELSE @.mediaType,
             rawProto   |-> IF rawProto # Nil THEN rawProto ELSE @.rawProto]]
    ELSE t @@ (id :> [chatJID |-> chatJID, senderJID |-> senderJID,
                      senderName |-> senderName, fromMe |-> fromMe,
                      body |-> body, timestamp |-> timestamp,
                      hasMedia |-> hasMedia, mediaType |-> mediaType,
                      rawProto |-> rawProto])

\* INSERT INTO messages ... ON CONFLICT(id) DO UPDATE SET ...
UpsertMessage(t, id, chatJID, senderJID, senderName, fromMe, body, timestamp, hasMedia, mediaType, rawProto) ==
    IF id \in DOMAIN t
    THEN [t EXCEPT ![id] =
            [chatJID    |-> @.chatJID,
             senderJID  |-> @.senderJID,
             senderName |-> IF senderName # EmptyStr THEN senderName ELSE @.senderName,
             fromMe     |-> @.fromMe,
             body       |-> IF body # EmptyStr THEN body ELSE @.body,
             timestamp  |-> @.timestamp,
             hasMedia   |-> hasMedia,
             mediaType  |-> mediaType,
             rawProto   |-> rawProto]]
    ELSE t @@ (id :> [chatJID |-> chatJID, senderJID |-> senderJID,
                      senderName |-> senderName, fromMe |-> fromMe,
                      body |-> body, timestamp |-> timestamp,
                      hasMedia |-> hasMedia, mediaType |-> mediaType,
                      rawProto |-> rawProto])

\* SELECT COUNT(*) FROM messages WHERE chat_jid = ?
GetMessageCount(t, chatJID) ==
    Cardinality({id \in DOMAIN t : t[id].chatJID = chatJID})


-----------------------------------------------------------------------------
(* Values the store calls and the events carry. *)

UserJID == <<"1">> \o AtWA
GroupJID == <<"2">> \o AtGUS
OwnJID == <<"9">> \o AtWA

Names == {EmptyStr, <<"n">>, <<"m">>}
Bodies == {EmptyStr, <<"a">>, <<"b">>}
Timestamps == 1..MaxTs

\* strings.HasSuffix(chatJID, "@g.us")
IsGroupJID(jid) == HasSuffix(jid, AtGUS)

\* The (lastMsg, lastMsgTs) pairs the callers of UpsertChat pass: (nil, nil),
\* a timestamp without a body (handleHistorySync, when the newest message
\* has no text), and a body with its timestamp.
ChatSummaries ==
    {<<Nil, Nil>>}
        \cup {<<Nil, Some(ts)>> : ts \in Timestamps}
        \cup {<<Some(b), Some(ts)>> : b \in Bodies, ts \in Timestamps}

\* (hasMedia, mediaType, rawProto) as the callers of UpsertMessage compute
\* them: hasMedia = (mediaType != nil), rawProto = the marshalled message,
\* nil when there is no media or the marshalling failed.
MediaTriples ==
    { <<FALSE, Nil, Nil>>,
      <<TRUE, Some("image"), Nil>>,
      <<TRUE, Some("image"), Some("img-bytes")>> }

NoCall == [op |-> "none"]

-----------------------------------------------------------------------------
(* appSchema: the external-content FTS5 table messages_fts over
   messages.body and the three triggers that maintain it.  An index entry is
   the pair of a row and the body that was indexed for it. *)

\* AFTER INSERT ON messages: index the new row's body.
messages_fts_ai(index, id, body) == index \cup {<<id, body>>}

\* AFTER DELETE ON messages: the 'delete' command with the old row's body.
messages_fts_ad(index, id, body) == index \ {<<id, body>>}

\* The update trigger without its 'delete' command.
messages_fts_au_insert_only(index, id, oldBody, newBody) == messages_fts_ai(index, id, newBody)

\* AFTER UPDATE ON messages: 'delete' the old body, then index the new one.
messages_fts_au(index, id, oldBody, newBody) == messages_fts_ai(messages_fts_ad(index, id, oldBody), id, newBody)

\* The index after a statement on messages that wrote or deleted the rows
\* ids, taking the table from before to after: one trigger firing per row.
RECURSIVE FireTriggers(_, _, _, _)
FireTriggers(index, before, after, ids) ==
    IF ids = {} THEN index
    ELSE LET id == CHOOSE x \in ids : TRUE
             fired == IF id \in DOMAIN before /\ id \in DOMAIN after
                      THEN messages_fts_au(index, id, before[id].body, after[id].body)
                      ELSE IF id \in DOMAIN after
                      THEN messages_fts_ai(index, id, after[id].body)
                      ELSE IF id \in DOMAIN before
                      THEN messages_fts_ad(index, id, before[id].body)
                      ELSE index
         IN  FireTriggers(fired, before, after, ids \ {id})

StoreIdle ==
    /\ contacts = EmptyTable
    /\ chats = EmptyTable
    /\ messages = EmptyTable
    /\ lastCall = NoCall
    /\ fts = {}

-----------------------------------------------------------------------------
(* Direct calls of the store's upsert operations. *)

UpsertContactCall(jid, name, pushName, number, isGroup) ==
    /\ contacts' = UpsertContact(contacts, jid, name, pushName, number, isGroup)
    /\ lastCall' = [op |-> "UpsertContact", conflict |-> jid \in DOMAIN contacts,
                    jid |-> jid, name |-> name, pushName |-> pushName,
                    number |-> number, isGroup |-> isGroup]
    /\ UNCHANGED <<chats, messages, fts>>

UpsertChatCall(jid, name, isGroup, lastMsg, lastMsgTs) ==
    /\ chats' = UpsertChat(chats, jid, name, isGroup, lastMsg, lastMsgTs)
    /\ lastCall' = [op |-> "UpsertChat", conflict |-> jid \in DOMAIN chats,
                    jid |-> jid, name |-> name, isGroup |-> isGroup,
                    lastMsg |-> lastMsg, lastMsgTs |-> lastMsgTs]
    /\ UNCHANGED <<contacts, messages, fts>>

UpsertMessageCall(id, chatJID, senderJID, senderName, fromMe, body, timestamp, media) ==
    /\ messages' = UpsertMessage(messages, id, chatJID, senderJID, senderName, fromMe,
                                 body, timestamp, media[1], media[2], media[3])
    /\ lastCall' = [op |-> "UpsertMessage", conflict |-> id \in DOMAIN messages,
                    id |-> id, senderName |-> senderName, body |-> body,
                    timestamp |-> timestamp, hasMedia |-> media[1],
                    mediaType |-> media[2], rawProto |-> media[3]]
    /\ fts' = FireTriggers(fts, messages, messages', {id})
    /\ UNCHANGED <<contacts, chats>>


-----------------------------------------------------------------------------
(* Session manager and deep sync: the state right after construction       *)
(* (NewWAClient, the zero value of deepSyncProgress).                      *)

Reconnectors == 1..NumReconnectors
Requests == 1..NumRequests

SessIdle ==
    /\ status = "disconnected"
    /\ qrCode = Nil
    /\ paired = FALSE
    /\ link = "down"
    /\ onceDone = FALSE
    /\ handlers = 0
    /\ reconnecting = FALSE
    /\ rpc = [p \in Reconnectors |-> "idle"]
    /\ rtrace = [p \in Reconnectors |-> << >>]
    /\ mainpc = "start"
    /\ dispatched = 0
    /\ qrChan = FALSE
    /\ syncState = [last_connected_at |-> Nil, last_disconnected_at |-> Nil]

NoLocals == [chatJIDs |-> << >>, i |-> 0, beforeCount |-> 0, lastCount |-> 0,
             staleRounds |-> 0, rounds |-> 0]

SyncIdle ==
    /\ dsp = [Running |-> FALSE, StartedAt |-> 0, TotalChats |-> 0,
              CurrentChat |-> EmptyStr, ChatIndex |-> 0, Results |-> << >>,
              TotalNew |-> 0]
    /\ hpc = [h \in Requests |-> "idle"]
    /\ hrun = [h \in Requests |-> FALSE]
    /\ resp = [h \in Requests |-> "none"]
    /\ dpc = [h \in Requests |-> "none"]
    /\ dloc = [h \in Requests |-> NoLocals]
    /\ histReqs = [h \in Requests |-> 0]
    /\ now = 1

ApiIdle ==
    /\ wire = << >>
    /\ reply = [op |-> "none"]
    /\ tx = Nil

-----------------------------------------------------------------------------
(* Sequences of UpsertChat calls on chat rows. *)

InitUpsertChat == CodecIdle /\ StoreIdle /\ SessIdle /\ SyncIdle /\ ApiIdle

NextUpsertChat ==
    /\ \E jid \in {UserJID, GroupJID}, name \in {EmptyStr, <<"n">>},
          summary \in ChatSummaries :
            UpsertChatCall(jid, name, IsGroupJID(jid), summary[1], summary[2])
    /\ UNCHANGED <<codecVars, sessVars, syncVars, apiVars>>

SpecUpsertChat == InitUpsertChat /\ [][NextUpsertChat]_vars

(* Sequences of UpsertMessage calls on message rows. *)

\* Two messages of one chat; a message's sender and timestamp are fixed.
MessageKeys == {formatMessageID(TRUE, toAPIJIDString(UserJID), <<"A">>),
                formatMessageID(FALSE, toAPIJIDString(UserJID), <<"B">>)}

NextUpsertMessage ==
    /\ \E id \in MessageKeys, senderName \in {EmptyStr, <<"n">>}, body \in Bodies,
          media \in MediaTriples :
            LET fromMe == Val(parseMessageIDParts(id)).fromMe
            IN  UpsertMessageCall(id, UserJID, IF fromMe THEN OwnJID ELSE UserJID,
                                  senderName, fromMe, body,
                                  IF fromMe THEN 1 ELSE MaxTs, media)
    /\ UNCHANGED <<codecVars, sessVars, syncVars, apiVars>>

SpecUpsertMessage == InitUpsertChat /\ [][NextUpsertMessage]_vars

(* Sequences of UpsertContact calls on contact rows. *)

NextUpsertContact ==
    /\ \E jid \in {UserJID, GroupJID}, name \in {EmptyStr, <<"n">>},
          pushName \in {EmptyStr, <<"m">>}, withNumber \in BOOLEAN,
          isGroup \in BOOLEAN :
            UpsertContactCall(jid, name, pushName,
                              IF withNumber THEN extractNumber(jid) ELSE EmptyStr,
                              isGroup)
    /\ UNCHANGED <<codecVars, sessVars, syncVars, apiVars>>

SpecUpsertContact == InitUpsertChat /\ [][NextUpsertContact]_vars

(* The identifier round trip. *)

InitCodec == CodecInit /\ StoreIdle /\ SessIdle /\ SyncIdle /\ ApiIdle

NextCodec ==
    /\ \/ CodecFormat
       \/ CodecParse
       \/ CodecReformat
    /\ UNCHANGED <<storeVars, sessVars, syncVars, apiVars>>

SpecCodec == InitCodec /\ [][NextCodec]_vars


-----------------------------------------------------------------------------
(* Properties of the upsert policies. *)

StoredChat(jid) ==
    IF jid \in DOMAIN chats THEN chats[jid]
    ELSE [name |-> EmptyStr, isGroup |-> FALSE, unreadCount |-> 0,
          lastMessage |-> Nil, lastMsgTs |-> Nil]

C3_MessageMerge ==
    [][ /\ (lastCall'.op = "UpsertMessage" /\ lastCall'.conflict) =>
              LET old == messages[lastCall'.id]
                  new == messages'[lastCall'.id]
              IN  /\ new.body = IF lastCall'.body # EmptyStr THEN lastCall'.body ELSE old.body
                  /\ new.senderName = IF lastCall'.senderName # EmptyStr
                                      THEN lastCall'.senderName ELSE old.senderName
                  /\ new.hasMedia = lastCall'.hasMedia
                  /\ new.mediaType = lastCall'.mediaType
                  /\ new.rawProto = lastCall'.rawProto
        /\ \A id \in DOMAIN messages :
              /\ id \in DOMAIN messages'
              /\ messages[id].body # EmptyStr => messages'[id].body # EmptyStr
              /\ messages[id].senderName # EmptyStr => messages'[id].senderName # EmptyStr
      ]_vars

\* A call without text and without media met a stored row: the row keeps
\* its text and has lost its media.
C3_Witness ==
    /\ lastCall.op = "UpsertMessage"
    /\ lastCall.conflict
    /\ lastCall.body = EmptyStr /\ messages[lastCall.id].body # EmptyStr
    /\ lastCall.senderName = EmptyStr /\ messages[lastCall.id].senderName # EmptyStr
    /\ ~lastCall.hasMedia /\ ~messages[lastCall.id].hasMedia
    /\ messages[lastCall.id].mediaType = Nil
    /\ messages[lastCall.id].rawProto = Nil

StoredContact(jid) ==
    IF jid \in DOMAIN contacts THEN contacts[jid]
    ELSE [name |-> EmptyStr, pushName |-> EmptyStr, number |-> EmptyStr, isGroup |-> FALSE]

\* C4: every UpsertContact call leaves each of name, pushName and number as
\* stored when the incoming value is empty (and as incoming otherwise), and
\* sets isGroup to the incoming value.
C4_ContactMerge ==
    [][ lastCall'.op = "UpsertContact" =>
          LET old == StoredContact(lastCall'.jid)
              new == contacts'[lastCall'.jid]
          IN  /\ new.name = IF lastCall'.name # EmptyStr THEN lastCall'.name ELSE old.name
              /\ new.pushName = IF lastCall'.pushName # EmptyStr
                                THEN lastCall'.pushName ELSE old.pushName
              /\ new.number = IF lastCall'.number # EmptyStr
                              THEN lastCall'.number ELSE old.number
              /\ new.isGroup = lastCall'.isGroup
      ]_vars

\* A call with empty name and number met a stored row that keeps both,
\* takes the new push name and the new isGroup.
C4_Witness ==
    /\ lastCall.op = "UpsertContact"
    /\ lastCall.conflict
    /\ lastCall.name = EmptyStr /\ contacts[lastCall.jid].name # EmptyStr
    /\ lastCall.number = EmptyStr /\ contacts[lastCall.jid].number # EmptyStr
    /\ lastCall.pushName # EmptyStr /\ contacts[lastCall.jid].pushName = lastCall.pushName
    /\ lastCall.isGroup /\ contacts[lastCall.jid].isGroup

-----------------------------------------------------------------------------
(* Properties of the identifier codec. *)

\* C9: for a user or group chat, parsing a formatted identifier gives back
\* the triple it was formatted from, whatever the raw id contains.
C9_ParseInvertsFormat ==
    (cStage \in {"parsed", "reformatted"} /\ (HasSuffix(cJID, AtWA) \/ HasSuffix(cJID, AtGUS))) =>
        cParts = Some([fromMe    |-> cFromMe,
                       chatJID   |-> toAPIJIDString(cJID),
                       messageID |-> cRaw])

\* C10: every identifier the event pipeline formats is parsed, and its
\* parts format back to the same identifier.
C10_FormatInvertsParse ==
    /\ cStage = "parsed" => cParts # Nil
    /\ cStage = "reformatted" => cBack = cID


-----------------------------------------------------------------------------
(* media.go: the decoded protocol message is a record of optional          *)
(* sub-messages; a media sub-message is given by its caption.              *)

NoContent == [conversation |-> EmptyStr, extendedText |-> Nil, image |-> Nil,
              video |-> Nil, audio |-> Nil, sticker |-> Nil, document |-> Nil]

TextMessage(text) == [NoContent EXCEPT !.conversation = text]
ImageMessage(caption) == [NoContent EXCEPT !.image = Some(caption)]

\* msg is nil or a message
getMediaType(msg) ==
    IF msg = Nil THEN Nil
    ELSE IF Val(msg).image # Nil THEN Some("image")
    ELSE IF Val(msg).video # Nil THEN Some("video")
    ELSE IF Val(msg).audio # Nil THEN Some("audio")
    ELSE IF Val(msg).sticker # Nil THEN Some("sticker")
    ELSE IF Val(msg).document # Nil THEN Some("document")
    ELSE Nil

extractMessageBody(msg) ==
    IF msg = Nil THEN EmptyStr
    ELSE IF Val(msg).conversation # EmptyStr THEN Val(msg).conversation
    ELSE IF Val(msg).extendedText # Nil THEN Val(Val(msg).extendedText)
    ELSE IF Val(msg).image # Nil THEN Val(Val(msg).image)
    ELSE IF Val(msg).video # Nil THEN Val(Val(msg).video)
    ELSE IF Val(msg).document # Nil THEN Val(Val(msg).document)
    ELSE EmptyStr

\* proto.Marshal(e2eMsg), when the message has media
MarshalIfMedia(msg) ==
    IF getMediaType(msg) # Nil /\ msg # Nil THEN Some(<<"proto", Val(msg)>>) ELSE Nil

-----------------------------------------------------------------------------
(* Event handlers. *)

\* bodyPreview := truncate(body, 100)
PreviewLimit == 100

truncate(s, n) == IF Len(s) <= n THEN s ELSE Prefix(s, n) \o <<".", ".", ".">>

\* The cascade of resolveSenderName.  libContact is the protocol library's
\* contact entry for the sender (nil when the lookup fails); participant is
\* the group participant matching a LID sender, with the library's contact
\* entry for its phone JID (nil when the group info is unavailable or no
\* participant matches).
FirstNonEmpty(names) ==
    LET hits == {k \in DOMAIN names : names[k] # EmptyStr}
    IN  IF hits = {} THEN EmptyStr ELSE names[Min(hits)]

resolveSenderName(libContact, senderJID, pushName, chatJID, participant) ==
    LET fromLib == IF libContact = Nil THEN EmptyStr
                   ELSE FirstNonEmpty(<<Val(libContact).FullName, Val(libContact).FirstName,
                                        Val(libContact).BusinessName, Val(libContact).PushName>>)
        fromDB == GetContactName(contacts, senderJID)
        viaGroup == HasSuffix(senderJID, AtLID) /\ HasSuffix(chatJID, AtGUS)
                        /\ participant # Nil
        p == Val(participant)
        fromParticipant ==
            IF p.contact # Nil /\ Val(p.contact).FullName # EmptyStr
                THEN Val(p.contact).FullName
            ELSE IF p.contact # Nil /\ Val(p.contact).PushName # EmptyStr
                THEN Val(p.contact).PushName
            ELSE IF GetContactName(contacts, p.JID) # EmptyStr
                THEN GetContactName(contacts, p.JID)
            ELSE extractNumber(p.JID)
    IN  IF fromLib # EmptyStr THEN fromLib
        ELSE IF fromDB # EmptyStr THEN fromDB
        ELSE IF viaGroup THEN fromParticipant
        ELSE pushName

\* handleMessage.  The store calls are taken to succeed.
HandleMessage(evt, libContact, participant) ==
    LET chatJID == evt.chat
        senderJID == evt.sender
        fromMe == evt.fromMe
        ts == evt.timestamp
        rawMsgID == evt.id
        senderName == resolveSenderName(libContact, senderJID, evt.pushName, chatJID, participant)
        e2eMsg == evt.message
        body == extractMessageBody(e2eMsg)
        mediaType == getMediaType(e2eMsg)
        hasMedia == mediaType # Nil
        rawProto == MarshalIfMedia(e2eMsg)
        formattedID == formatMessageID(fromMe, toAPIJIDString(chatJID), rawMsgID)
        isGroup == IsGroupJID(chatJID)
        bodyPreview == truncate(body, PreviewLimit)
        upserted == UpsertChat(chats, chatJID, EmptyStr, isGroup, Some(bodyPreview), Some(ts))
        updated == IF body # EmptyStr
                   THEN UpdateChatLastMessage(upserted, chatJID, bodyPreview, ts)
                   ELSE upserted
    IN  /\ messages' = UpsertMessage(messages, formattedID, chatJID, senderJID, senderName,
                                     fromMe, body, ts, hasMedia, mediaType, rawProto)
        /\ chats' = IF ~fromMe THEN IncrementUnread(updated, chatJID) ELSE updated
        /\ fts' = FireTriggers(fts, messages, messages', {formattedID})
        /\ lastCall' = [op |-> "Message", evt |-> evt]
        /\ UNCHANGED contacts

\* The library's contact entries a lookup may return.
LibContactChoices ==
    {Nil, Some([FullName |-> EmptyStr, FirstName |-> EmptyStr,
                BusinessName |-> EmptyStr, PushName |-> <<"n">>])}

\* Message events of one chat, in either direction, delivered in any order
\* and any number of times.
MessageEvents ==
    [chat : {UserJID}, sender : {UserJID, OwnJID}, fromMe : BOOLEAN,
     timestamp : Timestamps, id : {<<"A">>},
     pushName : {EmptyStr},
     message : {Some(TextMessage(<<"a">>)), Some(TextMessage(<<"b">>)),
                Some(ImageMessage(EmptyStr))}]

\* A chat's unread counter is not driven past MaxUnread.
UnreadBelowBound(jid) ==
    jid \in DOMAIN chats => chats[jid].unreadCount < MaxUnread

InitEvents == CodecIdle /\ StoreIdle /\ SessIdle /\ SyncIdle /\ ApiIdle

\* handleReceipt(evt): a read-self receipt of a chat clears its counter.
\* lastCall keeps the counter stored before.
HandleReceipt(type, chatJID) ==
    /\ chats' = IF type = "read-self" THEN MarkRead(chats, chatJID) ELSE chats
    /\ lastCall' = [op |-> "Receipt", type |-> type, chatJID |-> chatJID,
                    before |-> UnreadOf(chats, chatJID)]
    /\ UNCHANGED <<contacts, messages, fts>>

NextEvents ==
    /\ \E evt \in MessageEvents, libContact \in LibContactChoices :
          /\ evt.sender = (IF evt.fromMe THEN OwnJID ELSE evt.chat)
          /\ evt.fromMe \/ UnreadBelowBound(evt.chat)
          /\ HandleMessage(evt, libContact, Nil)
    /\ UNCHANGED <<codecVars, sessVars, syncVars, apiVars>>

SpecEvents == InitEvents /\ [][NextEvents]_vars

\* C1: handling a Message event never lowers a chat's lastMsgTs, and an
\* event older than the stored lastMsgTs leaves the stored preview alone.
C1_LastMessageMonotone ==
    [][ \A jid \in DOMAIN chats :
          (chats[jid].lastMsgTs # Nil /\ lastCall'.op = "Message" /\ lastCall'.evt.chat = jid) =>
              /\ jid \in DOMAIN chats'
              /\ chats'[jid].lastMsgTs # Nil
              /\ Val(chats'[jid].lastMsgTs) >= Val(chats[jid].lastMsgTs)
              /\ lastCall'.evt.timestamp < Val(chats[jid].lastMsgTs) =>
                    chats'[jid].lastMessage = chats[jid].lastMessage
      ]_vars


-----------------------------------------------------------------------------
(* Session manager: Connect, reconnect and the connection events of        *)
(* handleEvent.  The protocol client's connection is link: "down", "open"  *)
(* (dialled), or "authed" (logged in).                                     *)

\* fmt.Sprintf("%d", n) for n >= 0
RECURSIVE Itoa(_)
Itoa(n) ==
    LET digits == <<"0", "1", "2", "3", "4", "5", "6", "7", "8", "9">>
    IN  IF n < 10 THEN <<digits[n + 1]>>
        ELSE Itoa(n \div 10) \o <<digits[(n % 10) + 1]>>

SetSyncState(t, key, value) == [t EXCEPT ![key] = Some(value)]

ResetAllUnread(t) == [jid \in DOMAIN t |-> [t[jid] EXCEPT !.unreadCount = 0]]

\* A lock that never refuses.
TryLockAlways(held) == TRUE

\* wc.reconnecting.TryLock(): taken only when free
TryLock(held) == ~held

\* Registration on every call.
RegisterAlways(done, n) == n + 1

\* wc.handlerOnce.Do(AddEventHandler): the handler count after the call
RegisterOnce(done, n) == IF done THEN n ELSE n + 1

Alive == mainpc # "fatal"

IdleReconnectors == {p \in Reconnectors : rpc[p] = "idle"}

\* Connect(), first statement
ConnectOnce ==
    /\ handlers' = RegisterOnce(onceDone, handlers)
    /\ onceDone' = TRUE

\* Connect(), the branch on Store.ID.  Unpaired: GetQRChannel and
\* client.Connect(), then the QR goroutine starts (outcome "ok") or the error
\* is returned ("err").  Paired: setStatus(Connecting), client.Connect()
\* follows ("dial").
ConnectBranch(outcome) ==
    IF ~paired
    THEN /\ outcome \in {"ok", "err"}
         /\ outcome = "ok" => link = "down"
         /\ link' = IF outcome = "ok" THEN "open" ELSE link
         /\ qrChan' = (qrChan \/ outcome = "ok")
         /\ UNCHANGED status
    ELSE /\ outcome = "dial"
         /\ status' = "connecting"
         /\ UNCHANGED <<link, qrChan>>

\* client.Connect() with a stored session; it fails when already connected
\* and may fail otherwise
ClientConnect(ok) ==
    /\ ok => link = "down"
    /\ link' = IF ok THEN "open" ELSE link

SessionFrame == UNCHANGED <<codecVars, contacts, messages, lastCall, fts, apiVars, dsp, hpc, hrun,
                            resp, dpc, dloc, histReqs>>

MainConnectOnce ==
    /\ mainpc = "start"
    /\ ConnectOnce
    /\ mainpc' = "branch"
    /\ UNCHANGED <<status, qrCode, paired, link, reconnecting, rpc, rtrace,
                   dispatched, qrChan, syncState>>
    /\ SessionFrame /\ UNCHANGED <<chats, now>>

MainConnectBranch ==
    /\ mainpc = "branch"
    /\ \E outcome \in {"ok", "err", "dial"} :
          /\ ConnectBranch(outcome)
          /\ mainpc' = CASE outcome = "ok" -> "serving"
                         [] outcome = "err" -> "fatal"
                         [] outcome = "dial" -> "dial"
    /\ UNCHANGED <<qrCode, paired, onceDone, handlers, reconnecting, rpc, rtrace,
                   dispatched, syncState>>
    /\ SessionFrame /\ UNCHANGED <<chats, now>>

MainDial ==
    /\ mainpc = "dial"
    /\ \E ok \in BOOLEAN :
          /\ ClientConnect(ok)
          /\ mainpc' = IF ok THEN "serving" ELSE "fatal"
    /\ UNCHANGED <<status, qrCode, paired, onceDone, handlers, reconnecting, rpc,
                   rtrace, dispatched, qrChan, syncState>>
    /\ SessionFrame /\ UNCHANGED <<chats, now>>

\* reconnect(), the TryLock and the early return
ReconnectTryLock(p) ==
    /\ Alive
    /\ rpc[p] = "try"
    /\ IF TryLock(reconnecting)
       THEN /\ reconnecting' = TRUE
            /\ rpc' = [rpc EXCEPT ![p] = "disconnect"]
       ELSE /\ rpc' = [rpc EXCEPT ![p] = "skipped"]
            /\ UNCHANGED reconnecting
    /\ UNCHANGED <<status, qrCode, paired, link, onceDone, handlers, rtrace,
                   mainpc, dispatched, qrChan, syncState>>
    /\ SessionFrame /\ UNCHANGED <<chats, now>>

\* the goroutine that skipped ends
ReconnectReturn(p) ==
    /\ Alive
    /\ rpc[p] = "skipped"
    /\ rpc' = [rpc EXCEPT ![p] = "idle"]
    /\ UNCHANGED <<status, qrCode, paired, link, onceDone, handlers, reconnecting,
                   rtrace, mainpc, dispatched, qrChan, syncState>>
    /\ SessionFrame /\ UNCHANGED <<chats, now>>

ReconnectDisconnect(p) ==
    /\ Alive
    /\ rpc[p] = "disconnect"
    /\ link' = "down"
    /\ rtrace' = [rtrace EXCEPT ![p] = Append(@, "disconnect")]
    /\ rpc' = [rpc EXCEPT ![p] = "setStatus"]
    /\ UNCHANGED <<status, qrCode, paired, onceDone, handlers, reconnecting,
                   mainpc, dispatched, qrChan, syncState>>
    /\ SessionFrame /\ UNCHANGED <<chats, now>>

ReconnectSetStatus(p) ==
    /\ Alive
    /\ rpc[p] = "setStatus"
    /\ status' = "disconnected"
    /\ rtrace' = [rtrace EXCEPT ![p] = Append(@, "setStatus")]
    /\ rpc' = [rpc EXCEPT ![p] = "sleep"]
    /\ UNCHANGED <<qrCode, paired, link, onceDone, handlers, reconnecting,
                   mainpc, dispatched, qrChan, syncState>>
    /\ SessionFrame /\ UNCHANGED <<chats, now>>

ReconnectSleep(p) ==
    /\ Alive
    /\ rpc[p] = "sleep"
    /\ rtrace' = [rtrace EXCEPT ![p] = Append(@, "sleep")]
    /\ rpc' = [rpc EXCEPT ![p] = "connectOnce"]
    /\ UNCHANGED <<status, qrCode, paired, link, onceDone, handlers, reconnecting,
                   mainpc, dispatched, qrChan, syncState>>
    /\ SessionFrame /\ UNCHANGED <<chats, now>>

ReconnectConnectOnce(p) ==
    /\ Alive
    /\ rpc[p] = "connectOnce"
    /\ ConnectOnce
    /\ rtrace' = [rtrace EXCEPT ![p] = Append(@, "connect")]
    /\ rpc' = [rpc EXCEPT ![p] = "branch"]
    /\ UNCHANGED <<status, qrCode, paired, link, reconnecting, mainpc,
                   dispatched, qrChan, syncState>>
    /\ SessionFrame /\ UNCHANGED <<chats, now>>

ReconnectConnectBranch(p) ==
    /\ Alive
    /\ rpc[p] = "branch"
    /\ \E outcome \in {"ok", "err", "dial"} :
          /\ ConnectBranch(outcome)
          /\ rpc' = [rpc EXCEPT ![p] = IF outcome = "dial" THEN "dial" ELSE "unlock"]
    /\ UNCHANGED <<qrCode, paired, onceDone, handlers, reconnecting, rtrace,
                   mainpc, dispatched, syncState>>
    /\ SessionFrame /\ UNCHANGED <<chats, now>>

ReconnectDial(p) ==
    /\ Alive
    /\ rpc[p] = "dial"
    /\ \E ok \in BOOLEAN : ClientConnect(ok)
    /\ rpc' = [rpc EXCEPT ![p] = "unlock"]
    /\ UNCHANGED <<status, qrCode, paired, onceDone, handlers, reconnecting,
                   rtrace, mainpc, dispatched, qrChan, syncState>>
    /\ SessionFrame /\ UNCHANGED <<chats, now>>

\* the deferred Unlock, and the goroutine ends
ReconnectUnlock(p) ==
    /\ Alive
    /\ rpc[p] = "unlock"
    /\ reconnecting' = FALSE
    /\ rpc' = [rpc EXCEPT ![p] = "idle"]
    /\ UNCHANGED <<status, qrCode, paired, link, onceDone, handlers, rtrace,
                   mainpc, dispatched, qrChan, syncState>>
    /\ SessionFrame /\ UNCHANGED <<chats, now>>

\* handleEvent(*events.Connected).  The goroutines it starts
\* (populateContacts, populateGroupNames, backfillGroupSenderNames) run on
\* their own.
HandleConnected ==
    /\ Alive
    /\ handlers >= 1
    /\ paired
    /\ link = "open"
    /\ link' = "authed"
    /\ status' = "ready"
    /\ syncState' = SetSyncState(syncState, "last_connected_at", Itoa(now))
    /\ chats' = ResetAllUnread(chats)
    /\ dispatched' = handlers
    /\ UNCHANGED <<qrCode, paired, onceDone, handlers, reconnecting, rpc, rtrace,
                   mainpc, qrChan>>

\* A Connected event reaches the handler.
EvConnected ==
    /\ HandleConnected
    /\ SessionFrame /\ UNCHANGED now

\* go wc.reconnect(), once per registered handler
SpawnReconnect(n) ==
    \E S \in SUBSET IdleReconnectors :
        /\ Cardinality(S) = n
        /\ rpc' = [p \in Reconnectors |-> IF p \in S THEN "try" ELSE rpc[p]]
        /\ rtrace' = [p \in Reconnectors |-> IF p \in S THEN << >> ELSE rtrace[p]]

\* handleEvent(*events.Disconnected)
HandleDisconnected ==
    /\ Alive
    /\ handlers >= 1
    /\ link # "down"
    /\ link' = "down"
    /\ status' = "disconnected"
    /\ syncState' = SetSyncState(syncState, "last_disconnected_at", Itoa(now))
    /\ SpawnReconnect(handlers)
    /\ dispatched' = handlers
    /\ UNCHANGED <<qrCode, paired, onceDone, handlers, reconnecting, mainpc,
                   qrChan, chats>>

\* A Disconnected event reaches the handler.
EvDisconnected ==
    /\ HandleDisconnected
    /\ SessionFrame /\ UNCHANGED now

\* handleEvent(*events.StreamReplaced); the connection may survive it for a
\* while
HandleStreamReplaced ==
    /\ Alive
    /\ handlers >= 1
    /\ link = "authed"
    /\ link' \in {link, "down"}
    /\ status' = "disconnected"
    /\ SpawnReconnect(handlers)
    /\ dispatched' = handlers
    /\ UNCHANGED <<qrCode, paired, onceDone, handlers, reconnecting, mainpc,
                   qrChan, syncState, chats>>

\* A StreamReplaced event reaches the handler.
EvStreamReplaced ==
    /\ HandleStreamReplaced
    /\ SessionFrame /\ UNCHANGED now

\* The codes the QR channel may deliver.
QRCodes == {<<"q">>, <<"r">>}

\* A goroutine that keeps the first code it was given.
CaseCodeKeepFirst(code) ==
    /\ qrCode' = IF qrCode = Nil THEN Some(code) ELSE qrCode
    /\ status' = "qr"

\* case "code": the assignments made under wc.mu
CaseCode(code) ==
    /\ qrCode' = Some(code)
    /\ status' = "qr"

\* The QR goroutine of Connect(): case "code"
QRCode(code) ==
    /\ Alive
    /\ qrChan /\ ~paired /\ link = "open"
    /\ CaseCode(code)
    /\ UNCHANGED <<paired, link, onceDone, handlers, reconnecting, rpc, rtrace,
                   mainpc, dispatched, qrChan, syncState, chats>>
    /\ SessionFrame /\ UNCHANGED now

\* case "success"; the channel is closed after it
QRSuccess ==
    /\ Alive
    /\ qrChan /\ ~paired /\ link = "open" /\ qrCode # Nil
    /\ qrCode' = Nil
    /\ status' = "authenticated"
    /\ paired' = TRUE
    /\ qrChan' = FALSE
    /\ UNCHANGED <<link, onceDone, handlers, reconnecting, rpc, rtrace, mainpc,
                   dispatched, syncState, chats>>
    /\ SessionFrame /\ UNCHANGED now

\* case "timeout": the goroutine goes on as reconnect()
QRTimeout ==
    /\ Alive
    /\ qrChan /\ ~paired
    /\ qrCode' = Nil
    /\ qrChan' = FALSE
    /\ \E p \in IdleReconnectors :
          /\ rpc' = [rpc EXCEPT ![p] = "try"]
          /\ rtrace' = [rtrace EXCEPT ![p] = << >>]
    /\ UNCHANGED <<status, paired, link, onceDone, handlers, reconnecting, mainpc,
                   dispatched, syncState, chats>>
    /\ SessionFrame /\ UNCHANGED now

\* time passes
Tick ==
    /\ now < MaxNow
    /\ now' = now + 1
    /\ UNCHANGED <<codecVars, storeVars, sessVars, apiVars, dsp, hpc, hrun, resp, dpc, dloc,
                   histReqs>>

InitSession ==
    /\ CodecIdle /\ StoreIdle /\ SyncIdle /\ ApiIdle
    /\ status = "disconnected"
    /\ qrCode = Nil
    /\ paired \in BOOLEAN
    /\ link = "down"
    /\ onceDone = FALSE
    /\ handlers = 0
    /\ reconnecting = FALSE
    /\ rpc = [p \in Reconnectors |-> "idle"]
    /\ rtrace = [p \in Reconnectors |-> << >>]
    /\ mainpc = "start"
    /\ dispatched = 0
    /\ qrChan = FALSE
    /\ syncState = [last_connected_at |-> Nil, last_disconnected_at |-> Nil]

NextSession ==
    \/ MainConnectOnce
    \/ MainConnectBranch
    \/ MainDial
    \/ \E p \in Reconnectors : ReconnectTryLock(p)
    \/ \E p \in Reconnectors : ReconnectReturn(p)
    \/ \E p \in Reconnectors : ReconnectDisconnect(p)
    \/ \E p \in Reconnectors : ReconnectSetStatus(p)
    \/ \E p \in Reconnectors : ReconnectSleep(p)
    \/ \E p \in Reconnectors : ReconnectConnectOnce(p)
    \/ \E p \in Reconnectors : ReconnectConnectBranch(p)
    \/ \E p \in Reconnectors : ReconnectDial(p)
    \/ \E p \in Reconnectors : ReconnectUnlock(p)
    \/ EvConnected
    \/ EvDisconnected
    \/ EvStreamReplaced
    \/ \E code \in QRCodes : QRCode(code)
    \/ QRSuccess
    \/ QRTimeout
    \/ Tick

SpecSession == InitSession /\ [][NextSession]_vars

InCycle(p) ==
    rpc[p] \in {"disconnect", "setStatus", "sleep", "connectOnce", "branch", "dial", "unlock"}

\* C5: at most one goroutine is inside the reconnect cycle; a goroutine that
\* found the lock taken has made none of the cycle's calls and only ends.
C5_SingleReconnectCycle ==
    [][ /\ Cardinality({p \in Reconnectors : InCycle(p)'}) <= 1
        /\ \A p \in Reconnectors :
              /\ rpc'[p] = "skipped" => rtrace'[p] = << >>
              /\ rpc[p] = "skipped" => rpc'[p] \in {"skipped", "idle"}
              /\ (rpc[p] = "try" /\ rpc'[p] # "try" /\ \E q \in Reconnectors : InCycle(q))
                    => rpc'[p] = "skipped"
      ]_vars

C5_Witness ==
    \E p, q \in Reconnectors : rpc[p] = "skipped" /\ InCycle(q)

\* C8: however many times Connect runs, one event handler is registered,
\* and a protocol event reaches handleEvent once.
C8_HandlerRegisteredOnce ==
    /\ handlers <= 1
    /\ onceDone => handlers = 1
    /\ mainpc # "start" => handlers = 1
    /\ \A p \in Reconnectors : rpc[p] \in {"branch", "dial", "unlock"} => handlers = 1
    /\ dispatched <= 1

C8_Witness ==
    /\ mainpc = "serving"
    /\ \E p \in Reconnectors : rpc[p] = "unlock"
    /\ handlers = 1
    /\ dispatched = 1


-----------------------------------------------------------------------------
(* Deep sync: POST /deep-sync (handleDeepSync) and the DeepSync goroutine  *)
(* each accepted request starts.                                           *)

LidJID == <<"3">> \o AtLID

\* for staleRounds < 1 && rounds < 5
StaleLimit == 1
RoundLimit == 5
\* if rounds >= 30 { status = "max_rounds" }
MaxRoundsReported == 30

\* SELECT jid FROM chats WHERE jid NOT LIKE '%@lid' AND jid NOT LIKE '%@broadcast'
GetAllChatJIDs(t) ==
    {jid \in DOMAIN t : ~HasSuffix(jid, AtLID) /\ ~HasSuffix(jid, AtBroadcast)}

\* The query has no ORDER BY: the rows come in some order.
Orderings(S) ==
    {order \in [1..Cardinality(S) -> S] : \A x \in S : \E k \in DOMAIN order : order[k] = x}

\* A guard that lets every call in.
DeepSyncEntersAlways(running) == TRUE

\* if deepSyncProgress.Running { return }
DeepSyncEnters(running) == ~running

\* handleDeepSync, first critical section: running := deepSyncProgress.Running
HandleDeepSyncRead(h) ==
    /\ hpc[h] = "idle"
    /\ hrun' = [hrun EXCEPT ![h] = dsp.Running]
    /\ hpc' = [hpc EXCEPT ![h] = "read"]
    /\ UNCHANGED <<dsp, resp, dpc, dloc, histReqs, now>>
    /\ UNCHANGED <<codecVars, storeVars, sessVars, apiVars>>

\* handleDeepSync, the answer: 409, or go DeepSync() and success
HandleDeepSyncRespond(h) ==
    /\ hpc[h] = "read"
    /\ hpc' = [hpc EXCEPT ![h] = "done"]
    /\ IF hrun[h]
       THEN /\ resp' = [resp EXCEPT ![h] = "conflict"]
            /\ UNCHANGED dpc
       ELSE /\ resp' = [resp EXCEPT ![h] = "ok"]
            /\ dpc' = [dpc EXCEPT ![h] = "guard"]
    /\ hrun' = [hrun EXCEPT ![h] = FALSE]
    /\ UNCHANGED <<dsp, dloc, histReqs, now>>
    /\ UNCHANGED <<codecVars, storeVars, sessVars, apiVars>>

\* DeepSync, the guarded entry
DeepSyncGuard(h) ==
    /\ dpc[h] = "guard"
    /\ IF DeepSyncEnters(dsp.Running)
       THEN /\ dsp' = [dsp EXCEPT !.Running = TRUE, !.StartedAt = now,
                                  !.Results = << >>, !.TotalNew = 0]
            /\ dpc' = [dpc EXCEPT ![h] = "list"]
       ELSE /\ dpc' = [dpc EXCEPT ![h] = "skipped"]
            /\ UNCHANGED dsp
    /\ UNCHANGED <<hpc, hrun, resp, dloc, histReqs, now>>
    /\ UNCHANGED <<codecVars, storeVars, sessVars, apiVars>>

\* chatJIDs, err := wc.store.GetAllChatJIDs()
DeepSyncList(h) ==
    /\ dpc[h] = "list"
    /\ \E order \in Orderings(GetAllChatJIDs(chats)) :
          dloc' = [dloc EXCEPT ![h].chatJIDs = order, ![h].i = 1]
    /\ dpc' = [dpc EXCEPT ![h] = "total"]
    /\ UNCHANGED <<dsp, hpc, hrun, resp, histReqs, now>>
    /\ UNCHANGED <<codecVars, storeVars, sessVars, apiVars>>

DeepSyncTotal(h) ==
    /\ dpc[h] = "total"
    /\ dsp' = [dsp EXCEPT !.TotalChats = Len(dloc[h].chatJIDs)]
    /\ dpc' = [dpc EXCEPT ![h] = IF Len(dloc[h].chatJIDs) = 0 THEN "defer" ELSE "chat"]
    /\ UNCHANGED <<hpc, hrun, resp, dloc, histReqs, now>>
    /\ UNCHANGED <<codecVars, storeVars, sessVars, apiVars>>

\* The loop over chatJIDs; i counts from 1 here, so ChatIndex is i.
DeepSyncChat(h) ==
    /\ dpc[h] = "chat"
    /\ dsp' = [dsp EXCEPT !.CurrentChat = toAPIJIDString(dloc[h].chatJIDs[dloc[h].i]),
                          !.ChatIndex = dloc[h].i]
    /\ dpc' = [dpc EXCEPT ![h] = "count"]
    /\ UNCHANGED <<hpc, hrun, resp, dloc, histReqs, now>>
    /\ UNCHANGED <<codecVars, storeVars, sessVars, apiVars>>

DeepSyncCount(h) ==
    /\ dpc[h] = "count"
    /\ LET beforeCount == GetMessageCount(messages, dloc[h].chatJIDs[dloc[h].i])
       IN  dloc' = [dloc EXCEPT ![h].beforeCount = beforeCount, ![h].staleRounds = 0,
                                ![h].rounds = 0, ![h].lastCount = beforeCount]
    /\ dpc' = [dpc EXCEPT ![h] = "round"]
    /\ UNCHANGED <<dsp, hpc, hrun, resp, histReqs, now>>
    /\ UNCHANGED <<codecVars, storeVars, sessVars, apiVars>>

\* The loop as it was before: two stale rounds end it.
LoopConditionTwoStale(staleRounds, rounds) ==
    staleRounds < StaleLimit + 1 /\ rounds < RoundLimit

\* for staleRounds < 1 && rounds < 5
LoopCondition(staleRounds, rounds) ==
    staleRounds < StaleLimit /\ rounds < RoundLimit

\* The loop condition and RequestHistorySync, which may fail
DeepSyncRound(h) ==
    /\ dpc[h] = "round"
    /\ IF LoopCondition(dloc[h].staleRounds, dloc[h].rounds)
       THEN \E ok \in BOOLEAN :
               IF ok
               THEN /\ histReqs' = [histReqs EXCEPT ![h] = @ + 1]
                    /\ dloc' = [dloc EXCEPT ![h].rounds = @ + 1]
                    /\ dpc' = [dpc EXCEPT ![h] = "sleep"]
               ELSE /\ dpc' = [dpc EXCEPT ![h] = "result"]
                    /\ UNCHANGED <<histReqs, dloc>>
       ELSE /\ dpc' = [dpc EXCEPT ![h] = "result"]
            /\ UNCHANGED <<histReqs, dloc>>
    /\ UNCHANGED <<dsp, hpc, hrun, resp, now>>
    /\ UNCHANGED <<codecVars, storeVars, sessVars, apiVars>>

\* After the sleep: currentCount against lastCount
DeepSyncRecount(h) ==
    /\ dpc[h] = "sleep"
    /\ LET currentCount == GetMessageCount(messages, dloc[h].chatJIDs[dloc[h].i])
       IN  dloc' = [dloc EXCEPT
                       ![h].staleRounds = IF currentCount = dloc[h].lastCount
                                          THEN @ + 1 ELSE 0,
                       ![h].lastCount = currentCount]
    /\ dpc' = [dpc EXCEPT ![h] = "round"]
    /\ UNCHANGED <<dsp, hpc, hrun, resp, histReqs, now>>
    /\ UNCHANGED <<codecVars, storeVars, sessVars, apiVars>>

DeepSyncResult(h) ==
    /\ dpc[h] = "result"
    /\ LET jid == dloc[h].chatJIDs[dloc[h].i]
           afterCount == GetMessageCount(messages, jid)
           newMsgs == afterCount - dloc[h].beforeCount
           result == [ChatJID |-> toAPIJIDString(jid), Before |-> dloc[h].beforeCount,
                      After |-> afterCount, New |-> newMsgs, Rounds |-> dloc[h].rounds,
                      Status |-> IF dloc[h].rounds >= MaxRoundsReported
                                 THEN "max_rounds" ELSE "complete"]
       IN  dsp' = [dsp EXCEPT !.Results = Append(@, result), !.TotalNew = @ + newMsgs]
    /\ IF dloc[h].i < Len(dloc[h].chatJIDs)
       THEN /\ dloc' = [dloc EXCEPT ![h].i = @ + 1]
            /\ dpc' = [dpc EXCEPT ![h] = "chat"]
       ELSE /\ dpc' = [dpc EXCEPT ![h] = "defer"]
            /\ UNCHANGED dloc
    /\ UNCHANGED <<hpc, hrun, resp, histReqs, now>>
    /\ UNCHANGED <<codecVars, storeVars, sessVars, apiVars>>

\* A return without the deferred function.
DeepSyncReturnsBare(h) ==
    /\ dpc[h] = "defer"
    /\ dpc' = [dpc EXCEPT ![h] = "returned"]
    /\ dloc' = [dloc EXCEPT ![h] = NoLocals]
    /\ UNCHANGED <<dsp, hpc, hrun, resp, histReqs, now>>
    /\ UNCHANGED <<codecVars, storeVars, sessVars, apiVars>>

\* GetAllChatJIDs fails: the log line and the return
DeepSyncListFails(h) ==
    /\ dpc[h] = "list"
    /\ dpc' = [dpc EXCEPT ![h] = "defer"]
    /\ UNCHANGED <<dsp, hpc, hrun, resp, dloc, histReqs, now>>
    /\ UNCHANGED <<codecVars, storeVars, sessVars, apiVars>>

\* The deferred function
DeepSyncDefer(h) ==
    /\ dpc[h] = "defer"
    /\ dsp' = [dsp EXCEPT !.Running = FALSE, !.CurrentChat = EmptyStr]
    /\ dpc' = [dpc EXCEPT ![h] = "returned"]
    /\ dloc' = [dloc EXCEPT ![h] = NoLocals]
    /\ UNCHANGED <<hpc, hrun, resp, histReqs, now>>
    /\ UNCHANGED <<codecVars, storeVars, sessVars, apiVars>>

\* A Message event of the group chat arrives while requests are served.
MessageArrives ==
    /\ Cardinality(DOMAIN messages) < MaxArrivals
    /\ \E chat \in {GroupJID} :
          /\ UnreadBelowBound(chat)
          /\ HandleMessage([chat |-> chat, sender |-> chat, fromMe |-> FALSE,
                            timestamp |-> 1,
                            id |-> <<"H">> \o Itoa(Cardinality(DOMAIN messages)),
                            pushName |-> EmptyStr,
                            message |-> Some(TextMessage(<<"a">>))], Nil, Nil)
    /\ UNCHANGED <<codecVars, sessVars, syncVars, apiVars>>

\* Two chats are stored, one of them hidden from the sync, and no message.
InitDeepSync ==
    /\ CodecIdle /\ SessIdle /\ SyncIdle /\ ApiIdle
    /\ contacts = EmptyTable
    /\ chats = UpsertChat(UpsertChat(UpsertChat(EmptyTable,
                    UserJID, EmptyStr, FALSE, Nil, Nil),
                    GroupJID, EmptyStr, TRUE, Nil, Nil),
                    LidJID, EmptyStr, FALSE, Nil, Nil)
    /\ messages = EmptyTable
    /\ lastCall = NoCall
    /\ fts = {}

NextDeepSync ==
    \/ \E h \in Requests : HandleDeepSyncRead(h)
    \/ \E h \in Requests : HandleDeepSyncRespond(h)
    \/ \E h \in Requests : DeepSyncGuard(h)
    \/ \E h \in Requests : DeepSyncList(h)
    \/ \E h \in Requests : DeepSyncTotal(h)
    \/ \E h \in Requests : DeepSyncChat(h)
    \/ \E h \in Requests : DeepSyncCount(h)
    \/ \E h \in Requests : DeepSyncRound(h)
    \/ \E h \in Requests : DeepSyncRecount(h)
    \/ \E h \in Requests : DeepSyncResult(h)
    \/ \E h \in Requests : DeepSyncListFails(h)
    \/ \E h \in Requests : DeepSyncDefer(h)
    \/ MessageArrives
    \/ Tick

SpecDeepSync == InitDeepSync /\ [][NextDeepSync]_vars

PastGuard(h) ==
    dpc[h] \in {"list", "total", "chat", "count", "round", "sleep", "result", "defer"}

\* C6: at most one DeepSync execution is past the guard; one that meets
\* Running = true returns at once, having sent no history request and
\* leaving the progress of the run in progress as it is.
C6_SingleDeepSync ==
    [][ /\ Cardinality({h \in Requests : PastGuard(h)'}) <= 1
        /\ \A h \in Requests :
              /\ (dpc[h] = "guard" /\ dpc'[h] # "guard" /\ dsp.Running) =>
                    /\ dpc'[h] = "skipped"
                    /\ dsp' = dsp
                    /\ histReqs' = histReqs
              /\ dpc'[h] = "skipped" => histReqs'[h] = 0
              /\ dpc[h] = "skipped" => dpc'[h] = "skipped"
      ]_vars

C6_Witness ==
    \E h, g \in Requests : dpc[h] = "skipped" /\ PastGuard(g) /\ dsp.Running

RunOf(h) == dpc[h] = "guard" \/ PastGuard(h)

\* C7: a request that arrives while an accepted request is starting or
\* running its deep sync is answered 409 (it reads running = true), and a
\* request answered with success has started a DeepSync that became a run.
C7_SuccessMeansOwnRun ==
    [][ \A h \in Requests :
          /\ (hpc[h] = "idle" /\ hpc'[h] = "read"
                 /\ \E g \in Requests : g # h /\ resp[g] = "ok" /\ RunOf(g))
                => hrun'[h]
          /\ (hpc[h] = "read" /\ hpc'[h] = "done" /\ hrun[h]) => resp'[h] = "conflict"
          /\ resp'[h] = "ok" => dpc'[h] # "skipped"
      ]_vars


-----------------------------------------------------------------------------
(* Unread counters under Message events and read receipts. *)

\* Message events of a user chat and a group, received and sent.
UnreadMessageEvents ==
    { evt \in [chat : {UserJID, GroupJID}, sender : {UserJID, OwnJID}, fromMe : BOOLEAN,
               timestamp : {1}, id : {<<"A">>}, pushName : {EmptyStr},
               message : {Some(TextMessage(<<"a">>))}] :
        evt.sender = (IF evt.fromMe THEN OwnJID ELSE UserJID) }

EventMessage ==
    /\ \E evt \in UnreadMessageEvents :
          /\ evt.fromMe \/ UnreadBelowBound(evt.chat)
          /\ HandleMessage(evt, Nil, Nil)
    /\ UNCHANGED <<codecVars, sessVars, syncVars, apiVars>>

EventReceipt ==
    /\ \E type \in {"read-self", "read"}, chatJID \in {UserJID, GroupJID} :
          HandleReceipt(type, chatJID)
    /\ UNCHANGED <<codecVars, sessVars, syncVars, apiVars>>

NextUnread ==
    \/ EventMessage
    \/ EventReceipt

SpecUnread == InitEvents /\ [][NextUnread]_vars

\* C16: a handled Message event leaves the chat's unreadCount one above
\* what it was (0 for a chat without a row) when fromMe is false, and where
\* it was when fromMe is true; a read-self receipt then leaves it at 0.
C16_UnreadCounts ==
    [][ /\ lastCall'.op = "Message" =>
              /\ lastCall'.evt.chat \in DOMAIN chats'
              /\ chats'[lastCall'.evt.chat].unreadCount =
                    UnreadOf(chats, lastCall'.evt.chat)
                      + (IF lastCall'.evt.fromMe THEN 0 ELSE 1)
              /\ \A c \in DOMAIN chats \ {lastCall'.evt.chat} :
                    chats'[c].unreadCount = chats[c].unreadCount
        /\ (lastCall'.op = "Receipt" /\ lastCall'.type = "read-self") =>
              UnreadOf(chats', lastCall'.chatJID) = 0
      ]_vars

\* C16 witness: a read-self receipt has cleared a counter that received
\* messages had raised to 2 or more.
C16_Witness ==
    /\ lastCall.op = "Receipt" /\ lastCall.type = "read-self"
    /\ lastCall.before >= 2
    /\ chats[lastCall.chatJID].unreadCount = 0

-----------------------------------------------------------------------------
(* The HTTP API (handlers.go) over the store and the protocol client.  A
   served operation records itself in lastCall, its answer in reply and the
   requests it handed to the protocol client in wire. *)

\* ConnectionStatus
Statuses == {"disconnected", "connecting", "qr", "authenticated", "ready"}

\* (wc.status, the client's connection) as the session leaves them after a
\* Connected event, a lost connection, a QR pairing in progress and a
\* StreamReplaced event.
SessionStates ==
    { <<"ready", "authed">>, <<"disconnected", "down">>, <<"qr", "open">>,
      <<"disconnected", "authed">> }

\* whatsmeow hands a request to the server only over an authenticated
\* connection; the call fails otherwise, and may fail anyway.
SendOutcomes == IF link = "authed" THEN BOOLEAN ELSE {FALSE}

\* The chats of the front-end's requests, in API form.
ApiChatIds == {toAPIJIDString(UserJID), LidJID}

\* Message events: text messages of a user chat, received and sent, and
\* sent ones of a LID chat.
ApiMessageEvents ==
    { evt \in [chat : {UserJID, LidJID}, sender : {UserJID, OwnJID}, fromMe : BOOLEAN,
               timestamp : Timestamps, id : {<<"A">>},
               pushName : {EmptyStr},
               message : {Some(TextMessage(<<"a">>))}] :
        /\ evt.sender = (IF evt.fromMe THEN OwnJID ELSE evt.chat)
        /\ evt.chat = LidJID => evt.fromMe }

\* if req.Count <= 0 { req.Count = 50 }
DefaultCount == 50

\* ID: "FFFFFFFFFFFFFFFFFFFFFFFF"
NowAnchorID == [i \in 1..24 |-> "F"]

\* The outcomes of GetOldestMessage: nil for an error, else the info of a
\* row with the smallest timestamp (ORDER BY timestamp ASC LIMIT 1 does not
\* order rows of equal timestamp).
GetOldestMessage(t, chatJID) ==
    LET rows == {id \in DOMAIN t : t[id].chatJID = chatJID}
        first == {id \in rows : \A o \in rows : t[id].timestamp <= t[o].timestamp}
    IN  IF rows = {} THEN {Nil}
        ELSE { LET parts == parseMessageIDParts(id)
               IN  IF parts = Nil THEN Nil
                   ELSE Some([RawMsgID |-> Val(parts).messageID, ChatJID |-> chatJID,
                              FromMe |-> t[id].fromMe, Ts |-> t[id].timestamp])
               : id \in first }

\* strings.Replace(id, "@c.us", "@s.whatsapp.net", 1) and types.ParseJID,
\* for ids that carry the domain as their suffix.
parseAPIJID(id) == toInternalJID(id)

\* The history request RequestHistorySync builds from GetOldestMessage's
\* outcome.
BuildHistorySyncRequest(oldest, chatJID, count, t) ==
    IF oldest = Nil
    THEN [kind |-> "HistorySync", Chat |-> parseAPIJID(toAPIJIDString(chatJID)),
          IsFromMe |-> TRUE, ID |-> NowAnchorID, Timestamp |-> t, count |-> count]
    ELSE [kind |-> "HistorySync", Chat |-> parseAPIJID(toAPIJIDString(Val(oldest).ChatJID)),
          IsFromMe |-> Val(oldest).FromMe, ID |-> Val(oldest).RawMsgID,
          Timestamp |-> Val(oldest).Ts, count |-> count]

\* POST /sync-history {chatId, count}
HandleSyncHistory(chatId, count) ==
    LET n == IF count <= 0 THEN DefaultCount ELSE count
        internalJID == toInternalJID(chatId)
    IN  /\ IF chatId = EmptyStr
           THEN /\ wire' = << >>
                /\ reply' = [op |-> "sync-history", code |-> 400, error |-> "chatId is required"]
                /\ lastCall' = [op |-> "handleSyncHistory", chatJID |-> EmptyStr]
           ELSE \E oldest \in GetOldestMessage(messages, internalJID), ok \in SendOutcomes :
                /\ wire' = <<[req |-> BuildHistorySyncRequest(oldest, internalJID, n, now),
                              delivered |-> link = "authed"]>>
                /\ reply' = IF ok
                            THEN [op |-> "sync-history", code |-> 200, error |-> "none",
                                  chatId |-> chatId, requested |-> n,
                                  currentCount |-> GetMessageCount(messages, internalJID)]
                            ELSE [op |-> "sync-history", code |-> 500,
                                  error |-> "request history"]
                /\ lastCall' = [op |-> "RequestHistorySync", chatJID |-> internalJID]
        /\ UNCHANGED <<contacts, chats, messages, fts, tx>>
        /\ UNCHANGED <<codecVars, sessVars, syncVars>>

\* A Message event reaches handleEvent.
ApiMessage ==
    /\ \E evt \in ApiMessageEvents :
          /\ evt.fromMe \/ UnreadBelowBound(evt.chat)
          /\ HandleMessage(evt, Nil, Nil)
    /\ UNCHANGED <<codecVars, sessVars, syncVars, apiVars>>

ApiSyncHistory == \E chatId \in ApiChatIds \cup {EmptyStr}, count \in {0, 1} : HandleSyncHistory(chatId, count)

\* The bridge serves requests with an empty store, in one of the session
\* states S.
InitApi(S) ==
    /\ CodecIdle /\ StoreIdle /\ SyncIdle /\ ApiIdle
    /\ \E st \in S : status = st[1] /\ link = st[2]
    /\ qrCode = Nil
    /\ paired = (link = "authed")
    /\ onceDone = TRUE
    /\ handlers = 1
    /\ reconnecting = FALSE
    /\ rpc = [p \in Reconnectors |-> "idle"]
    /\ rtrace = [p \in Reconnectors |-> << >>]
    /\ mainpc = "serving"
    /\ dispatched = 0
    /\ qrChan = FALSE
    /\ syncState = [last_connected_at |-> Nil, last_disconnected_at |-> Nil]

InitSyncHistory == InitApi({<<"ready", "authed">>})

NextSyncHistory ==
    \/ ApiMessage
    \/ ApiSyncHistory

SpecSyncHistory == InitSyncHistory /\ [][NextSyncHistory]_vars

\* The stored messages of a chat.
MessagesOf(chatJID) == {id \in DOMAIN messages : messages[id].chatJID = chatJID}

\* C11: a history request of a chat hands exactly one request to the protocol
\* client; when the chat has stored messages its anchor is one of them with
\* the smallest timestamp (that row's raw id, fromMe and timestamp), and the
\* now-anchor (24 'F', fromMe) is used only when the chat has none.
C11_AnchorIsOldest ==
    lastCall.op = "RequestHistorySync" =>
        LET rows == MessagesOf(lastCall.chatJID)
        IN  /\ Len(wire) = 1
            /\ rows # {} =>
                 \E id \in rows :
                    /\ \A o \in rows : messages[id].timestamp <= messages[o].timestamp
                    /\ wire[1].req.Timestamp = messages[id].timestamp
                    /\ wire[1].req.IsFromMe = messages[id].fromMe
                    /\ id = formatMessageID(messages[id].fromMe,
                                            toAPIJIDString(messages[id].chatJID),
                                            wire[1].req.ID)
            /\ rows = {} => wire[1].req.ID = NowAnchorID /\ wire[1].req.IsFromMe


-----------------------------------------------------------------------------
(* HistorySync events (events.go: handleHistorySync, processWebMessage). *)

\* determineSenderJID; ownID is wc.client.Store.ID (nil or a JID)
determineSenderJID(key, fromMe, ownID, chatJID, isGroup) ==
    IF key.participant # EmptyStr THEN key.participant
    ELSE IF fromMe /\ ownID # Nil THEN Val(ownID)
    ELSE IF ~isGroup THEN chatJID
    ELSE EmptyStr

\* processWebMessage on the store st = [contacts, chats, messages, fts]:
\* one UpsertMessage, whose insert or update fires the index's trigger.
processWebMessage(st, webMsg, chatJID, isGroup, ownID) ==
    IF webMsg.key = Nil THEN st
    ELSE LET key == Val(webMsg.key)
             fromMe == key.fromMe
             e2eMsg == webMsg.message
             body == extractMessageBody(e2eMsg)
             mediaType == getMediaType(e2eMsg)
             senderJID == determineSenderJID(key, fromMe, ownID, chatJID, isGroup)
             resolved == IF isGroup /\ ~fromMe /\ senderJID # EmptyStr
                         THEN resolveSenderName(Nil, senderJID, webMsg.pushName, chatJID, Nil)
                         ELSE EmptyStr
             senderName == IF resolved # EmptyStr THEN resolved ELSE webMsg.pushName
             formattedID == formatMessageID(fromMe, toAPIJIDString(key.remoteJID), key.id)
             upserted == UpsertMessage(st.messages, formattedID, chatJID, senderJID,
                                       senderName, fromMe, body, webMsg.timestamp,
                                       mediaType # Nil, mediaType, MarshalIfMedia(e2eMsg))
         IN  [st EXCEPT !.messages = upserted,
                        !.fts = FireTriggers(st.fts, st.messages, upserted, {formattedID})]

\* The loop over a conversation's messages: the store after it.
RECURSIVE ProcessHistoryMessages(_, _, _, _, _)
ProcessHistoryMessages(st, msgs, chatJID, isGroup, ownID) ==
    IF msgs = << >> THEN st
    ELSE ProcessHistoryMessages(processWebMessage(st, Head(msgs), chatJID, isGroup, ownID),
                                Tail(msgs), chatJID, isGroup, ownID)

\* The loop's tracking of the latest message: [body, ts], nil or values.
RECURSIVE TrackLatest(_, _)
TrackLatest(msgs, last) ==
    IF msgs = << >> THEN last
    ELSE LET webMsg == Head(msgs)
             ts == webMsg.timestamp
             body == extractMessageBody(webMsg.message)
             next == IF last.ts = Nil \/ ts > Val(last.ts)
                     THEN [body |-> IF body # EmptyStr THEN Some(body) ELSE last.body,
                           ts |-> Some(ts)]
                     ELSE last
         IN  TrackLatest(Tail(msgs), next)

\* One iteration of handleHistorySync's loop over the conversations.
HistoryConversation(st, conv, ownID) ==
    LET chatJID == conv.id
        isGroup == IsGroupJID(chatJID)
        stored == ProcessHistoryMessages(st, conv.messages, chatJID, isGroup, ownID)
        last == TrackLatest(conv.messages, [body |-> Nil, ts |-> Nil])
        upserted == UpsertChat(stored.chats, chatJID, conv.displayName, isGroup,
                               last.body, last.ts)
        unread == SetUnread(upserted, chatJID, conv.unreadCount)
    IN  [stored EXCEPT
            !.chats = unread,
            !.contacts = IF ~isGroup
                         THEN UpsertContact(@, chatJID, conv.displayName, EmptyStr,
                                            extractNumber(chatJID), FALSE)
                         ELSE @]

RECURSIVE HistoryConversations(_, _, _)
HistoryConversations(st, convs, ownID) ==
    IF convs = << >> THEN st
    ELSE HistoryConversations(HistoryConversation(st, Head(convs), ownID), Tail(convs), ownID)

\* handleHistorySync(evt); lastCall keeps, per conversation, its id, the
\* count it carried and the counter stored before the event.
HandleHistorySync(convs) ==
    \E st \in {HistoryConversations([contacts |-> contacts, chats |-> chats,
                                     messages |-> messages, fts |-> fts],
                                    convs, Some(OwnJID))} :
        /\ contacts' = st.contacts
        /\ chats' = st.chats
        /\ messages' = st.messages
        /\ fts' = st.fts
        /\ lastCall' = [op |-> "HistorySync",
                        convs |-> [i \in DOMAIN convs |->
                                     [id |-> convs[i].id,
                                      unreadCount |-> convs[i].unreadCount,
                                      before |-> UnreadOf(chats, convs[i].id)]]]

\* A message of a synced conversation, and one without a key.
WebMessage(chatJID, ts) ==
    [key |-> Some([remoteJID |-> chatJID, fromMe |-> FALSE, id |-> <<"A">>,
                   participant |-> EmptyStr]),
     timestamp |-> ts, pushName |-> EmptyStr, message |-> Some(TextMessage(<<"a">>))]

KeylessWebMessage == [key |-> Nil, timestamp |-> 1, pushName |-> EmptyStr, message |-> Nil]

\* The conversations of a chat that an event may carry.
ConversationsOf(chatJID) ==
    [id : {chatJID}, displayName : {<<"n">>}, unreadCount : 0..MaxUnread,
     messages : {<< >>, <<KeylessWebMessage, WebMessage(chatJID, 1)>>}]

\* HistorySync events of one conversation, and of a user chat's and a
\* group's.
HistoryEvents ==
    {<<c>> : c \in ConversationsOf(UserJID) \cup ConversationsOf(GroupJID)}
    \cup {<<c, d>> : c \in ConversationsOf(UserJID),
                     d \in {x \in ConversationsOf(GroupJID) : x.messages = << >>}}

\* Message events received in the two chats.
ReceivedMessageEvents ==
    [chat : {UserJID, GroupJID}, sender : {UserJID}, fromMe : {FALSE},
     timestamp : {MaxTs}, id : {<<"B">>}, pushName : {EmptyStr},
     message : {Some(TextMessage(<<"b">>))}]

EventMessageReceived ==
    /\ \E evt \in ReceivedMessageEvents :
          /\ UnreadBelowBound(evt.chat)
          /\ HandleMessage(evt, Nil, Nil)
    /\ UNCHANGED <<codecVars, sessVars, syncVars, apiVars>>

EventHistorySync ==
    /\ \E convs \in HistoryEvents : HandleHistorySync(convs)
    /\ UNCHANGED <<codecVars, sessVars, syncVars, apiVars>>

InitHistorySync == InitApi({<<"ready", "authed">>})

NextHistorySync ==
    \/ EventMessageReceived
    \/ EventHistorySync

SpecHistorySync == InitHistorySync /\ [][NextHistorySync]_vars

\* C12: once a HistorySync event is handled, the row of each of its
\* conversations exists and its unreadCount is the count the event carried,
\* whatever the counter was before.
C12_HistoryUnreadAuthoritative ==
    lastCall.op = "HistorySync" =>
        \A i \in DOMAIN lastCall.convs :
            /\ lastCall.convs[i].id \in DOMAIN chats
            /\ chats[lastCall.convs[i].id].unreadCount = lastCall.convs[i].unreadCount

\* C12 witness: an event carrying 0 replaced a counter that Message events
\* had raised, and one carrying a positive count replaced a different one.
C12_Witness ==
    /\ lastCall.op = "HistorySync"
    /\ Len(lastCall.convs) = 2
    /\ lastCall.convs[1].before > 0 /\ lastCall.convs[1].unreadCount = 0
    /\ chats[lastCall.convs[1].id].unreadCount = 0
    /\ lastCall.convs[2].unreadCount > 0
    /\ lastCall.convs[2].before # lastCall.convs[2].unreadCount
    /\ chats[lastCall.convs[2].id].unreadCount = lastCall.convs[2].unreadCount


-----------------------------------------------------------------------------
(* DeleteChat's transaction (store.go) with concurrent readers and event
   handlers, and full-text search (SearchMessages). *)

\* What a statement outside the transaction reads while it is open.
DirtyView(committed, open) ==
    IF open # Nil /\ Val(open).pc # "begun" THEN Val(open).work ELSE committed

\* SQLite isolation: a transaction's writes are invisible to the other
\* connections until it commits.
ReaderView(committed, open) == committed

\* The committed tables the transaction works on.
Committed == [chats |-> chats, messages |-> messages, fts |-> fts]

\* DELETE FROM messages WHERE chat_jid = ?, with the delete trigger fired
\* for each deleted row.
DeleteMessagesOf(st, chatJID) ==
    LET gone == {id \in DOMAIN st.messages : st.messages[id].chatJID = chatJID}
        kept == [id \in DOMAIN st.messages \ gone |-> st.messages[id]]
    IN  [st EXCEPT !.messages = kept,
                   !.fts = FireTriggers(st.fts, st.messages, kept, gone)]

\* DELETE FROM chats WHERE jid = ?
DeleteChatRowOf(st, chatJID) ==
    [st EXCEPT !.chats = [j \in DOMAIN st.chats \ {chatJID} |-> st.chats[j]]]

TxFrame == UNCHANGED <<codecVars, sessVars, syncVars, contacts, wire>>

\* DeleteChat(chatJID): tx, err := s.db.Begin().  lastCall keeps the call
\* and, once it has returned, whether it returned an error.
DeleteChatBegin(chatJID) ==
    /\ tx = Nil
    /\ tx' = Some([chatJID |-> chatJID, pc |-> "begun",
                   work |-> [chats |-> EmptyTable, messages |-> EmptyTable, fts |-> {}]])
    /\ lastCall' = [op |-> "DeleteChat", chatJID |-> chatJID, result |-> "running"]
    /\ UNCHANGED <<chats, messages, fts, reply>>
    /\ TxFrame

\* tx.Exec(DELETE FROM messages ...): the transaction's first write
DeleteChatMessages ==
    /\ tx # Nil /\ Val(tx).pc = "begun"
    /\ tx' = Some([Val(tx) EXCEPT !.pc = "messages",
                                  !.work = DeleteMessagesOf(Committed, Val(tx).chatJID)])
    /\ UNCHANGED <<chats, messages, fts, lastCall, reply>>
    /\ TxFrame

\* tx.Exec(DELETE FROM chats ...)
DeleteChatRow ==
    /\ tx # Nil /\ Val(tx).pc = "messages"
    /\ tx' = Some([Val(tx) EXCEPT !.pc = "chat",
                                  !.work = DeleteChatRowOf(Val(tx).work, Val(tx).chatJID)])
    /\ UNCHANGED <<chats, messages, fts, lastCall, reply>>
    /\ TxFrame

\* return tx.Commit()
DeleteChatCommit ==
    /\ tx # Nil /\ Val(tx).pc = "chat"
    /\ \E ok \in BOOLEAN :
          /\ chats' = IF ok THEN Val(tx).work.chats ELSE chats
          /\ messages' = IF ok THEN Val(tx).work.messages ELSE messages
          /\ fts' = IF ok THEN Val(tx).work.fts ELSE fts
          /\ lastCall' = [op |-> "DeleteChat", chatJID |-> Val(tx).chatJID,
                          result |-> IF ok THEN "ok" ELSE "error"]
    /\ tx' = Nil
    /\ UNCHANGED reply
    /\ TxFrame

\* A statement fails: the error is returned and the deferred tx.Rollback()
\* discards the transaction's writes.
DeleteChatFail ==
    /\ tx # Nil /\ Val(tx).pc \in {"begun", "messages"}
    /\ tx' = Nil
    /\ lastCall' = [op |-> "DeleteChat", chatJID |-> Val(tx).chatJID, result |-> "error"]
    /\ UNCHANGED <<chats, messages, fts, reply>>
    /\ TxFrame

\* A reader on another connection lists the chats and the chats of the
\* stored messages.
ReaderObserves ==
    /\ LET view == ReaderView(Committed, tx)
       IN  reply' = [op |-> "read", chats |-> DOMAIN view.chats,
                     withMessages |-> {view.messages[id].chatJID : id \in DOMAIN view.messages}]
    /\ UNCHANGED <<chats, messages, fts, lastCall, tx>>
    /\ TxFrame

\* The tokens of a body: its maximal runs of characters other than space.
RECURSIVE Tokens(_, _)
Tokens(body, run) ==
    IF body = << >> THEN (IF run = << >> THEN {} ELSE {run})
    ELSE IF Head(body) = " "
         THEN (IF run = << >> THEN {} ELSE {run}) \cup Tokens(Tail(body), << >>)
         ELSE Tokens(Tail(body), Append(run, Head(body)))

\* limit := 50
DefaultLimit == 50

\* SearchMessages(query, limit) for a one-token query: the possible sets of
\* message ids returned: messages_fts MATCH ? joined with messages on the
\* rowid, LIMIT ? (the rank order among the matches is not modelled).
SearchMessages(view, query, limit) ==
    LET hits == {id \in DOMAIN view.messages :
                    \E e \in view.fts : e[1] = id /\ query \in Tokens(e[2], << >>)}
    IN  IF Cardinality(hits) <= limit THEN {hits}
        ELSE {r \in SUBSET hits : Cardinality(r) = limit}

\* The SearchResult a matching row is returned as (the chat's name is not
\* modelled).
SearchResultOf(t, id) ==
    [Message |-> [ID |-> id, Body |-> t[id].body, FromMe |-> t[id].fromMe,
                  Timestamp |-> t[id].timestamp,
                  From |-> toAPIJIDString(t[id].senderJID)],
     ChatJID |-> toAPIJIDString(t[id].chatJID)]

\* GET /search?q=
HandleSearch(q) ==
    /\ IF q = EmptyStr
       THEN reply' = [op |-> "search", code |-> 400]
       ELSE \E view \in {ReaderView(Committed, tx)} :
            \E ids \in SearchMessages(view, q, DefaultLimit) :
               reply' = [op |-> "search", code |-> 200, q |-> q, ids |-> ids,
                         results |-> {SearchResultOf(view.messages, id) : id \in ids}]
    /\ UNCHANGED <<chats, messages, fts, lastCall, tx>>
    /\ TxFrame

\* Message events sent from this account: two keys in a user chat, one in a
\* group, bodies of one and two tokens.
SentMessageEvents ==
    { evt \in [chat : {UserJID, GroupJID}, sender : {OwnJID}, fromMe : {TRUE},
               timestamp : {1}, id : {<<"A">>, <<"B">>}, pushName : {EmptyStr},
               message : {Some(TextMessage(<<"a">>)),
                          Some(TextMessage(<<"a", " ", "b">>))}] :
        evt.chat = GroupJID => evt.id = <<"A">> }

\* A Message event is handled; its writes wait while the transaction holds
\* the database's write lock.
EventMessageSent ==
    /\ IF tx = Nil THEN TRUE ELSE Val(tx).pc = "begun"
    /\ \E evt \in SentMessageEvents : HandleMessage(evt, Nil, Nil)
    /\ UNCHANGED <<codecVars, sessVars, syncVars, apiVars>>

StoreDeleteChatBegin == \E chatJID \in {UserJID, GroupJID} : DeleteChatBegin(chatJID)

ApiSearch == \E q \in {EmptyStr, <<"a">>, <<"b">>} : HandleSearch(q)

InitDeleteChat == InitApi({<<"ready", "authed">>})

NextDeleteChat ==
    \/ EventMessageSent
    \/ StoreDeleteChatBegin
    \/ DeleteChatMessages
    \/ DeleteChatRow
    \/ DeleteChatCommit
    \/ DeleteChatFail
    \/ ReaderObserves
    \/ ApiSearch

SpecDeleteChat == InitDeleteChat /\ [][NextDeleteChat]_vars

\* A table without the rows of chat c (chat rows by key, messages by
\* chatJID).
WithoutChat(t, c) == [j \in DOMAIN t \ {c} |-> t[j]]
WithoutMessagesOf(t, c) == [id \in {i \in DOMAIN t : t[i].chatJID # c} |-> t[id]]

\* C13: deleteChat(c) is all-or-nothing.  When it succeeds, the chat row and
\* every message of c are gone and nothing else changed; when it fails, no
\* chat row and no message changed; a statement of the open transaction
\* changes nothing that others read; and a reader never sees a chat row
\* whose messages are deleted (every chat row here is created by a message
\* of the chat, so a chat listed without any message is a half-done delete).
C13_DeleteChatAllOrNothing ==
    [][ /\ (tx # Nil /\ tx' = Nil /\ lastCall'.result = "ok") =>
              /\ Val(tx).chatJID \notin DOMAIN chats'
              /\ \A id \in DOMAIN messages' : messages'[id].chatJID # Val(tx).chatJID
              /\ chats' = WithoutChat(chats, Val(tx).chatJID)
              /\ messages' = WithoutMessagesOf(messages, Val(tx).chatJID)
        /\ (tx # Nil /\ tx' = Nil /\ lastCall'.result = "error") =>
              /\ chats' = chats
              /\ messages' = messages
        /\ (tx # Nil /\ tx' # Nil /\ tx' # tx) =>
              /\ chats' = chats
              /\ messages' = messages
        /\ reply'.op = "read" => reply'.chats \subseteq reply'.withMessages
      ]_vars

\* C13 witness: the delete of the user chat has committed: a reader had
\* seen its row before, now it is gone while the group's row and message
\* remain.
C13_Witness ==
    /\ lastCall = [op |-> "DeleteChat", chatJID |-> UserJID, result |-> "ok"]
    /\ tx = Nil
    /\ reply.op = "read" /\ UserJID \in reply.chats
    /\ UserJID \notin DOMAIN chats
    /\ GroupJID \in DOMAIN chats
    /\ DOMAIN messages # {}


\* The one-token queries of the searches.
SearchTokens == {<<"a">>, <<"b">>}

\* C14: the full-text index holds exactly one entry per stored message,
\* with the message's current body, and a search for a token returns
\* exactly the stored messages whose current body contains the token.
C14_IndexMatchesBodies ==
    /\ fts = {<<id, messages[id].body>> : id \in DOMAIN messages}
    /\ \A q \in SearchTokens :
          SearchMessages(ReaderView(Committed, tx), q, DefaultLimit)
            = {{id \in DOMAIN messages : q \in Tokens(messages[id].body, << >>)}}

\* C14 witness: an earlier search for "b" returned a message whose body has
\* since been replaced by one without "b", and a message that has since
\* been deleted with its chat.
C14_Witness ==
    /\ reply.op = "search" /\ reply.code = 200 /\ reply.q = <<"b">>
    /\ \E k \in reply.ids :
          k \in DOMAIN messages /\ <<"b">> \notin Tokens(messages[k].body, << >>)
    /\ \E k \in reply.ids : k \notin DOMAIN messages
    /\ tx = Nil


-----------------------------------------------------------------------------
(* The store's read operations GetMessages and GetRawProto (store.go) and
   POST /download-media, over rows written by UpsertMessage. *)

\* The Message a row is returned as.
MessageOf(t, id) ==
    [ID |-> id, Body |-> t[id].body, FromMe |-> t[id].fromMe,
     Timestamp |-> t[id].timestamp, From |-> toAPIJIDString(t[id].senderJID),
     HasMedia |-> t[id].hasMedia, MediaType |-> t[id].mediaType,
     SenderName |-> IF t[id].senderName # EmptyStr THEN Some(t[id].senderName) ELSE Nil]

\* ORDER BY timestamp DESC LIMIT n over the rows ids: the possible
\* sequences (rows of equal timestamp come in any order).
RECURSIVE NewestFirst(_, _, _)
NewestFirst(t, ids, n) ==
    IF n = 0 \/ ids = {} THEN {<< >>}
    ELSE LET newest == {id \in ids : \A o \in ids : t[id].timestamp >= t[o].timestamp}
         IN  UNION { {<<id>> \o rest : rest \in NewestFirst(t, ids \ {id}, n - 1)}
                     : id \in newest }

\* A GetMessages whose bound excludes the messages at beforeTs.
GetMessagesStrictlyBefore(t, chatJID, limit, beforeTs) ==
    LET rows == {id \in DOMAIN t :
                    /\ t[id].chatJID = chatJID
                    /\ beforeTs > 0 => t[id].timestamp < beforeTs}
    IN  { [i \in DOMAIN ids |-> MessageOf(t, ids[i])] : ids \in NewestFirst(t, rows, limit) }

\* GetMessages(chatJID, limit, beforeTs): the possible results.  A negative
\* LIMIT is no limit in SQLite (NewestFirst then never reaches 0).
GetMessages(t, chatJID, limit, beforeTs) ==
    LET rows == {id \in DOMAIN t :
                    /\ t[id].chatJID = chatJID
                    /\ beforeTs > 0 => t[id].timestamp <= beforeTs}
    IN  { [i \in DOMAIN ids |-> MessageOf(t, ids[i])] : ids \in NewestFirst(t, rows, limit) }

\* GetRawProto(messageID): Scan fails only when there is no row; a NULL
\* raw_proto scans into a nil slice without error.
GetRawProto(t, messageID) ==
    IF messageID \notin DOMAIN t
    THEN [rawProto |-> Nil, err |-> TRUE]
    ELSE [rawProto |-> t[messageID].rawProto, err |-> FALSE]

StoreReadFrame == UNCHANGED <<codecVars, sessVars, syncVars, contacts, chats, wire, tx>>

\* A call of UpsertMessage.
StoreUpsertMessage(id, chatJID, fromMe, timestamp, media) ==
    /\ UpsertMessageCall(id, chatJID, IF fromMe THEN OwnJID ELSE UserJID, EmptyStr, fromMe,
                         <<"a">>, timestamp, media)
    /\ reply' = [op |-> "none"]
    /\ UNCHANGED <<codecVars, sessVars, syncVars, wire, tx>>

\* A call of GetMessages.
GetMessagesCall(chatJID, limit, beforeTs) ==
    /\ \E result \in GetMessages(messages, chatJID, limit, beforeTs) :
          reply' = [op |-> "GetMessages", messages |-> result]
    /\ lastCall' = [op |-> "GetMessages", chatJID |-> chatJID, limit |-> limit,
                    beforeTs |-> beforeTs]
    /\ UNCHANGED <<messages, fts>>
    /\ StoreReadFrame

\* A call of GetRawProto.
GetRawProtoCall(messageID) ==
    /\ reply' = [op |-> "GetRawProto", result |-> GetRawProto(messages, messageID)]
    /\ lastCall' = [op |-> "GetRawProto", messageID |-> messageID]
    /\ UNCHANGED <<messages, fts>>
    /\ StoreReadFrame

\* POST /download-media {messageId}; the download itself may fail.
HandleDownloadMedia(messageID) ==
    /\ LET got == GetRawProto(messages, messageID)
       IN  IF messageID = EmptyStr
           THEN reply' = [op |-> "download-media", code |-> 400]
           ELSE IF got.err
           THEN reply' = [op |-> "download-media", code |-> 404, error |-> "message not found"]
           ELSE IF got.rawProto = Nil
           THEN reply' = [op |-> "download-media", code |-> 404, error |-> "no raw proto stored"]
           ELSE \E ok \in SendOutcomes :
                   reply' = [op |-> "download-media", code |-> IF ok THEN 200 ELSE 500]
    /\ lastCall' = [op |-> "handleDownloadMedia", messageID |-> messageID]
    /\ UNCHANGED <<messages, fts>>
    /\ StoreReadFrame

\* The rows of the reads: two text messages of a user chat with any
\* timestamp, a third at timestamp 2 with or without media, and one of a
\* group.
ReadKeys ==
    { [id |-> formatMessageID(f, toAPIJIDString(UserJID), <<"A">>), chatJID |-> UserJID,
       fromMe |-> f, timestamps |-> Timestamps, media |-> {<<FALSE, Nil, Nil>>}]
      : f \in BOOLEAN }
    \cup
    { [id |-> formatMessageID(FALSE, toAPIJIDString(UserJID), <<"B">>), chatJID |-> UserJID,
       fromMe |-> FALSE, timestamps |-> {2}, media |-> MediaTriples],
      [id |-> formatMessageID(FALSE, GroupJID, <<"A">>), chatJID |-> GroupJID,
       fromMe |-> FALSE, timestamps |-> {1}, media |-> {<<FALSE, Nil, Nil>>}] }

\* The limits and bounds handleMessages passes: a positive limit (50 by
\* default) and a bound that is 0 or positive.
ReadLimits == {1, 2, DefaultLimit}
ReadBounds == 0..MaxTs

StoreUpsert ==
    \E k \in ReadKeys : \E ts \in k.timestamps, media \in k.media :
        StoreUpsertMessage(k.id, k.chatJID, k.fromMe, ts, media)

StoreGetMessages ==
    \E chatJID \in {UserJID, GroupJID}, limit \in ReadLimits, beforeTs \in ReadBounds :
        GetMessagesCall(chatJID, limit, beforeTs)

StoreGetRawProto ==
    \E k \in ReadKeys : \E id \in {k.id, k.id \o <<"x">>} : GetRawProtoCall(id)

ApiDownloadMedia ==
    \E k \in ReadKeys : \E id \in {k.id, k.id \o <<"x">>, EmptyStr} : HandleDownloadMedia(id)

InitStoreReads == InitApi({<<"ready", "authed">>})

NextStoreReads ==
    \/ StoreUpsert
    \/ StoreGetMessages
    \/ StoreGetRawProto
    \/ ApiDownloadMedia

SpecStoreReads == InitStoreReads /\ [][NextStoreReads]_vars

\* The stored messages of a chat that a bound admits.
AdmittedBy(chatJID, beforeTs) ==
    {id \in MessagesOf(chatJID) : beforeTs # 0 => messages[id].timestamp <= beforeTs}

\* C15: GetMessages returns at most limit messages, all of the chat and
\* within the bound (when it is non-zero), in non-increasing timestamp
\* order, and they are the newest such messages: as many as the limit
\* allows, none older than one left out.
C15_NewestWithinBound ==
    lastCall.op = "GetMessages" =>
        LET r == reply.messages
            admitted == AdmittedBy(lastCall.chatJID, lastCall.beforeTs)
            returned == {r[i].ID : i \in DOMAIN r}
        IN  /\ Len(r) <= lastCall.limit
            /\ Len(r) = Min({lastCall.limit, Cardinality(admitted)})
            /\ Cardinality(returned) = Len(r)
            /\ returned \subseteq admitted
            /\ \A i \in DOMAIN r : r[i].Timestamp = messages[r[i].ID].timestamp
            /\ \A i, j \in DOMAIN r : i < j => r[i].Timestamp >= r[j].Timestamp
            /\ \A id \in admitted \ returned : \A i \in DOMAIN r :
                  messages[id].timestamp <= r[i].Timestamp

\* C15 witness: of three messages of the chat one is beyond the bound, and
\* of the two within it the limit of 1 returned one at the bound itself,
\* while another chat has a message.
C15_Witness ==
    /\ lastCall.op = "GetMessages"
    /\ lastCall.limit = 1 /\ lastCall.beforeTs = 2
    /\ Cardinality(MessagesOf(lastCall.chatJID)) = 3
    /\ Cardinality(AdmittedBy(lastCall.chatJID, lastCall.beforeTs)) = 2
    /\ Len(reply.messages) = 1
    /\ reply.messages[1].Timestamp = lastCall.beforeTs
    /\ \E id \in DOMAIN messages : messages[id].chatJID # lastCall.chatJID

\* C19: GetRawProto returns an error when no row has the key and when the
\* row's raw_proto is empty, and the stored bytes otherwise.
C19_RawProtoOrError ==
    lastCall.op = "GetRawProto" =>
        LET id == lastCall.messageID
            absent == id \notin DOMAIN messages
        IN  /\ reply.result.err = (IF absent THEN TRUE ELSE messages[id].rawProto = Nil)
            /\ ~reply.result.err => reply.result.rawProto = messages[id].rawProto


-----------------------------------------------------------------------------
(* POST /send and the session's readiness (handlers.go). *)

\* const maxMessageLen = 65536
MaxMessageLen == 65536

\* toAPIJID, on the string of the JID
toAPIJID(jid) == toAPIJIDString(jid)

\* The id the server assigns to a sent message (resp.ID).
ServerID == <<"S">>

\* POST /send {chatId, message, quotedMessageId}
HandleSend(chatId, message, quoted) ==
    LET chatJID == parseAPIJID(chatId)
        parts == IF quoted # Nil /\ Val(quoted) # EmptyStr
                 THEN parseMessageIDParts(Val(quoted)) ELSE Nil
        msg == IF quoted # Nil /\ Val(quoted) # EmptyStr
               THEN [kind |-> "Message", to |-> chatJID, text |-> message,
                     stanzaID |-> IF parts = Nil THEN EmptyStr ELSE Val(parts).messageID,
                     participant |-> IF parts = Nil THEN EmptyStr ELSE Val(parts).chatJID]
               ELSE [kind |-> "Message", to |-> chatJID, text |-> message,
                     stanzaID |-> EmptyStr, participant |-> EmptyStr]
    IN  /\ IF chatId = EmptyStr \/ message = EmptyStr
           THEN /\ wire' = << >>
                /\ reply' = [op |-> "send", code |-> 400,
                             error |-> "chatId and message are required"]
           ELSE IF Len(message) > MaxMessageLen
           THEN /\ wire' = << >>
                /\ reply' = [op |-> "send", code |-> 400, error |-> "message too long"]
           ELSE IF quoted # Nil /\ Val(quoted) # EmptyStr /\ parts = Nil
           THEN /\ wire' = << >>
                /\ reply' = [op |-> "send", code |-> 400,
                             error |-> "invalid quotedMessageId format"]
           ELSE \E ok \in SendOutcomes :
                /\ wire' = <<[req |-> msg, delivered |-> link = "authed"]>>
                /\ reply' = IF ok
                            THEN [op |-> "send", code |-> 200, error |-> "none",
                                  messageId |-> formatMessageID(TRUE, toAPIJID(chatJID),
                                                                ServerID)]
                            ELSE [op |-> "send", code |-> 500, error |-> "send message"]
        /\ lastCall' = [op |-> "handleSend", chatJID |-> toInternalJID(chatId)]
        /\ UNCHANGED <<contacts, chats, messages, fts, tx>>
        /\ UNCHANGED <<codecVars, sessVars, syncVars>>

\* GET /chats/{chatId}/messages with the default limit and no bound: the
\* ids of the possible answers.
HandleMessagesIDs(chatId) ==
    { {r[i].ID : i \in DOMAIN r} :
        r \in GetMessages(messages, toInternalJID(chatId), DefaultLimit, 0) }

\* A Message event of the account's own message in the user chat.
OwnMessageEvent ==
    [chat |-> UserJID, sender |-> OwnJID, fromMe |-> TRUE, timestamp |-> 1,
     id |-> <<"A">>, pushName |-> EmptyStr, message |-> Some(TextMessage(<<"a">>))]

EventOwnMessage ==
    /\ HandleMessage(OwnMessageEvent, Nil, Nil)
    /\ UNCHANGED <<codecVars, sessVars, syncVars, apiVars>>

ApiSend ==
    \E chatId \in ApiChatIds \cup {EmptyStr}, message \in {EmptyStr, <<"a">>},
       quoted \in {Nil, Some(<<"x">>),
                   Some(formatMessageID(FALSE, toAPIJIDString(UserJID), <<"A">>))} :
        HandleSend(chatId, message, quoted)

InitSend == InitApi(SessionStates)

NextSend ==
    \/ EventOwnMessage
    \/ ApiSend
    \/ ApiSyncHistory

SpecSend == InitSend /\ [][NextSend]_vars

\* C17: once POST /send has answered success with messageId M, the messages
\* of the chat include M.
C17_SentMessageStored ==
    (lastCall.op = "handleSend" /\ reply.code = 200) =>
        /\ reply.messageId \in DOMAIN messages
        /\ \A ids \in HandleMessagesIDs(toAPIJIDString(lastCall.chatJID)) :
              reply.messageId \in ids

\* C18: while the status is not Ready, a well-formed POST /send or POST
\* /sync-history is answered NotReady and hands no request to the protocol
\* client.
C18_NotReadyRejected ==
    (/\ status # "ready"
     /\ lastCall.op \in {"handleSend", "RequestHistorySync"}
     /\ reply.code # 400) =>
        /\ reply.error = "NotReady"
        /\ wire = << >>

-----------------------------------------------------------------------------
(* Address forms: internal in the store, API form towards the front-end. *)

\* GetContacts: the non-group chats outside @lid and @broadcast as Contacts
\* (display name, number and order are not modelled).
GetContacts(ch, ct) ==
    { [ID |-> toAPIJIDString(jid), IsGroup |-> ch[jid].isGroup] :
        jid \in {j \in DOMAIN ch : /\ ~ch[j].isGroup
                                  /\ ~HasSuffix(j, AtLID)
                                  /\ ~HasSuffix(j, AtBroadcast)} }

\* GetChats: the chats outside @lid and @broadcast (name, preview and order
\* are not modelled).
GetChats(ch, msgs) ==
    { [ID |-> toAPIJIDString(jid), IsGroup |-> ch[jid].isGroup,
       UnreadCount |-> ch[jid].unreadCount,
       MessageCount |-> GetMessageCount(msgs, jid)] :
        jid \in {j \in DOMAIN ch : ~HasSuffix(j, AtLID) /\ ~HasSuffix(j, AtBroadcast)} }

\* GetLatestMessageID(chatJID): nil for the error of a chat without rows,
\* else the id of a row of the greatest timestamp.
GetLatestMessageID(t, chatJID) ==
    LET rows == {id \in DOMAIN t : t[id].chatJID = chatJID}
    IN  IF rows = {} THEN {Nil}
        ELSE {Some(id) : id \in {r \in rows : \A o \in rows :
                                     t[r].timestamp >= t[o].timestamp}}

AddressFrame == UNCHANGED <<codecVars, sessVars, syncVars, tx>>

\* GET /contacts
HandleContacts ==
    /\ reply' = [op |-> "contacts", code |-> 200, contacts |-> GetContacts(chats, contacts)]
    /\ lastCall' = [op |-> "handleContacts"]
    /\ UNCHANGED <<contacts, chats, messages, fts, wire>>
    /\ AddressFrame

\* GET /chats
HandleChats ==
    /\ reply' = [op |-> "chats", code |-> 200, chats |-> GetChats(chats, messages)]
    /\ lastCall' = [op |-> "handleChats"]
    /\ UNCHANGED <<contacts, chats, messages, fts, wire>>
    /\ AddressFrame

\* GET /chats/{chatId}/messages, without limit and before
HandleMessages(chatId) ==
    /\ IF chatId = EmptyStr
       THEN reply' = [op |-> "messages", code |-> 400, messages |-> << >>]
       ELSE \E result \in GetMessages(messages, toInternalJID(chatId), DefaultLimit, 0) :
               reply' = [op |-> "messages", code |-> 200, messages |-> result]
    /\ lastCall' = [op |-> "handleMessages", chatId |-> chatId]
    /\ UNCHANGED <<contacts, chats, messages, fts, wire>>
    /\ AddressFrame

\* POST /mark-read/{chatId}.  lastCall keeps the id received and the
\* counter the addressed row had before.
HandleMarkRead(chatId) ==
    LET internalJID == toInternalJID(chatId)
    IN  /\ IF chatId = EmptyStr
           THEN /\ reply' = [op |-> "mark-read", code |-> 400]
                /\ UNCHANGED <<chats, wire>>
           ELSE /\ chats' = MarkRead(chats, internalJID)
                /\ \E latestID \in GetLatestMessageID(messages, internalJID) :
                      LET parts == IF latestID = Nil THEN Nil
                                   ELSE parseMessageIDParts(Val(latestID))
                      IN  wire' = IF parts = Nil THEN << >>
                                  ELSE <<[req |-> [kind |-> "MarkRead",
                                                   ids |-> <<Val(parts).messageID>>,
                                                   chat |-> parseAPIJID(Val(parts).chatJID)],
                                          delivered |-> link = "authed"]>>
                /\ reply' = [op |-> "mark-read", code |-> 200]
        /\ lastCall' = [op |-> "handleMarkRead", chatId |-> chatId,
                        before |-> UnreadOf(chats, internalJID)]
        /\ UNCHANGED <<contacts, messages, fts>>
        /\ AddressFrame

\* DELETE /chats/{chatId}: DeleteChat commits or returns an error.
HandleDeleteChat(chatId) ==
    LET internalJID == toInternalJID(chatId)
        done == DeleteChatRowOf(DeleteMessagesOf(Committed, internalJID), internalJID)
    IN  /\ IF chatId = EmptyStr
           THEN /\ reply' = [op |-> "delete-chat", code |-> 400]
                /\ lastCall' = [op |-> "handleDeleteChat", chatId |-> chatId,
                                result |-> "error"]
                /\ UNCHANGED <<chats, messages, fts>>
           ELSE \E ok \in BOOLEAN :
                /\ chats' = IF ok THEN done.chats ELSE chats
                /\ messages' = IF ok THEN done.messages ELSE messages
                /\ fts' = IF ok THEN done.fts ELSE fts
                /\ reply' = [op |-> "delete-chat", code |-> IF ok THEN 200 ELSE 500]
                /\ lastCall' = [op |-> "handleDeleteChat", chatId |-> chatId,
                                result |-> IF ok THEN "ok" ELSE "error"]
        /\ UNCHANGED <<contacts, wire>>
        /\ AddressFrame

\* The user of the user chat, and the two forms of the chat's address.
UserNumber == <<"1">>
UserAPIID == UserNumber \o AtCUS
UserRow == UserNumber \o AtWA

\* The id the front-end sends for the user chat.
FrontEndChatIds == {UserAPIID}

\* A HistorySync event of the user chat, named, with one received message.
AddressHistoryEvent ==
    <<[id |-> UserJID, displayName |-> <<"n">>, unreadCount |-> 1,
       messages |-> <<WebMessage(UserJID, 1)>>]>>

\* The Message event of the same message, received from the user.
AddressMessageEvent ==
    [chat |-> UserJID, sender |-> UserJID, fromMe |-> FALSE, timestamp |-> 1,
     id |-> <<"A">>, pushName |-> EmptyStr, message |-> Some(TextMessage(<<"a">>))]

\* The event handlers answer no request and send nothing: reply and wire
\* are those of the step.
EventAddressHistorySync ==
    /\ HandleHistorySync(AddressHistoryEvent)
    /\ reply' = [op |-> "none"]
    /\ wire' = << >>
    /\ UNCHANGED <<codecVars, sessVars, syncVars, tx>>

\* A message is delivered while it is not stored.
EventAddressMessage ==
    /\ formatMessageID(FALSE, toAPIJIDString(UserJID), AddressMessageEvent.id)
           \notin DOMAIN messages
    /\ HandleMessage(AddressMessageEvent, Nil, Nil)
    /\ reply' = [op |-> "none"]
    /\ wire' = << >>
    /\ UNCHANGED <<codecVars, sessVars, syncVars, tx>>

ApiContacts == HandleContacts

ApiChats == HandleChats

ApiMessages == \E chatId \in FrontEndChatIds : HandleMessages(chatId)

ApiMarkRead == \E chatId \in FrontEndChatIds : HandleMarkRead(chatId)

ApiDeleteChat == \E chatId \in FrontEndChatIds : HandleDeleteChat(chatId)

ApiSyncHistoryOf == \E chatId \in FrontEndChatIds : HandleSyncHistory(chatId, 1)

ApiSearchBody == HandleSearch(<<"a">>)

\* One POST /deep-sync request and the DeepSync it starts.
ApiDeepSync ==
    \E h \in {1} :
        \/ HandleDeepSyncRead(h)
        \/ HandleDeepSyncRespond(h)
        \/ DeepSyncGuard(h)
        \/ DeepSyncList(h)
        \/ DeepSyncTotal(h)
        \/ DeepSyncChat(h)
        \/ DeepSyncCount(h)
        \/ DeepSyncRound(h)
        \/ DeepSyncRecount(h)
        \/ DeepSyncResult(h)
        \/ DeepSyncDefer(h)

InitAddresses == InitApi({<<"ready", "authed">>})

NextAddresses ==
    \/ EventAddressHistorySync
    \/ EventAddressMessage
    \/ ApiContacts
    \/ ApiChats
    \/ ApiMessages
    \/ ApiMarkRead
    \/ ApiDeleteChat
    \/ ApiSyncHistoryOf
    \/ ApiSearchBody
    \/ ApiDeepSync

SpecAddresses == InitAddresses /\ [][NextAddresses]_vars

InternalForm(jid) == ~HasSuffix(jid, AtCUS)

APIForm(id) == ~HasSuffix(id, AtWA)

\* The addresses of the last answer and of the deep-sync results.
ReturnedAddresses ==
    (IF reply.op = "contacts" THEN {c.ID : c \in reply.contacts} ELSE {})
    \cup (IF reply.op = "chats" THEN {c.ID : c \in reply.chats} ELSE {})
    \cup (IF reply.op = "messages"
          THEN {reply.messages[i].From : i \in DOMAIN reply.messages} ELSE {})
    \cup (IF reply.op = "search" /\ reply.code = 200
          THEN {r.ChatJID : r \in reply.results} \cup {r.Message.From : r \in reply.results}
          ELSE {})
    \cup {dsp.Results[i].ChatJID : i \in DOMAIN dsp.Results}

\* C20: the rows of contacts, chats and messages carry internal-form
\* addresses; every address returned (ids of contacts and chats, chatJid and
\* from of search results, from of messages, chat of deep-sync results) is
\* in API form; and mark-read, messages, delete and sync-history called with
\* x@c.us act on the row x@s.whatsapp.net.
C20_AddressForms ==
    /\ \A jid \in DOMAIN contacts \cup DOMAIN chats : InternalForm(jid)
    /\ \A id \in DOMAIN messages :
          InternalForm(messages[id].chatJID) /\ InternalForm(messages[id].senderJID)
    /\ \A a \in ReturnedAddresses : APIForm(a)
    /\ (lastCall.op = "handleMarkRead" /\ lastCall.chatId = UserAPIID) =>
          UnreadOf(chats, UserRow) = 0
    /\ (lastCall.op = "handleMessages" /\ lastCall.chatId = UserAPIID
            /\ reply.op = "messages") =>
          {reply.messages[i].ID : i \in DOMAIN reply.messages} = MessagesOf(UserRow)
    /\ (lastCall.op = "handleDeleteChat" /\ lastCall.chatId = UserAPIID
            /\ lastCall.result = "ok") =>
          UserRow \notin DOMAIN chats /\ MessagesOf(UserRow) = {}
    /\ (lastCall.op = "RequestHistorySync" /\ reply.op = "sync-history"
            /\ reply.code = 200 /\ reply.chatId = UserAPIID) =>
          /\ wire[1].req.Chat = UserRow
          /\ reply.currentCount = Cardinality(MessagesOf(UserRow))
          /\ MessagesOf(UserRow) # {} => wire[1].req.ID # NowAnchorID

\* C20 witness: the user chat has a contact row, a chat row and messages
\* under its internal address, a deep sync has reported it, and a mark-read
\* for its API id has just cleared a positive counter.
C20_Witness ==
    /\ UserRow \in DOMAIN contacts /\ UserRow \in DOMAIN chats
    /\ MessagesOf(UserRow) # {}
    /\ \E i \in DOMAIN dsp.Results : dsp.Results[i].ChatJID = UserAPIID
    /\ lastCall.op = "handleMarkRead" /\ lastCall.chatId = UserAPIID
    /\ lastCall.before > 0
    /\ UnreadOf(chats, UserRow) = 0

-----------------------------------------------------------------------------
(* GET /contacts over chats of every kind of address. *)

BroadcastJID == <<"s", "t", "a", "t", "u", "s">> \o AtBroadcast

\* The chats stored: a user's, a group's, a LID's and the status broadcast.
ContactChatJIDs == {UserJID, GroupJID, LidJID, BroadcastJID}

StoreUpsertChat ==
    /\ \E jid \in ContactChatJIDs, name \in {EmptyStr, <<"n">>} :
          UpsertChatCall(jid, name, IsGroupJID(jid), Nil, Nil)
    /\ reply' = [op |-> "none"]
    /\ UNCHANGED <<codecVars, sessVars, syncVars, wire, tx>>

StoreUpsertContact ==
    /\ \E jid \in {UserJID}, name \in {EmptyStr, <<"m">>} :
          UpsertContactCall(jid, name, EmptyStr, extractNumber(jid), FALSE)
    /\ reply' = [op |-> "none"]
    /\ UNCHANGED <<codecVars, sessVars, syncVars, wire, tx>>

InitContacts == InitApi({<<"ready", "authed">>})

NextContacts ==
    \/ StoreUpsertChat
    \/ StoreUpsertContact
    \/ HandleContacts

SpecContacts == InitContacts /\ [][NextContacts]_vars

\* The chats whose address is neither a LID nor a broadcast address.
ListedChats ==
    {jid \in DOMAIN chats : ~HasSuffix(jid, AtLID) /\ ~HasSuffix(jid, AtBroadcast)}

\* C21: the answer of GET /contacts has an entry for every chat that is
\* neither LID nor broadcast, groups included with isGroup = true, and no
\* other entry.
C21_ContactsListEveryChat ==
    lastCall.op = "handleContacts" =>
        /\ {c.ID : c \in reply.contacts} = {toAPIJIDString(jid) : jid \in ListedChats}
        /\ \A c \in reply.contacts : c.IsGroup = HasSuffix(c.ID, AtGUS)

-----------------------------------------------------------------------------
(* GetMessages and the sender's name. *)

\* Two messages a user sent to the group.
NamedMessageKeys == {formatMessageID(FALSE, toAPIJIDString(GroupJID), <<"A">>),
                     formatMessageID(FALSE, toAPIJIDString(GroupJID), <<"B">>)}

\* UpsertMessage of a group message with the sender's name as the event
\* handler resolved it: none, the push name, or a name.
StoreUpsertNamedMessage ==
    /\ \E id \in NamedMessageKeys, senderName \in Names :
          UpsertMessageCall(id, GroupJID, UserJID, senderName, FALSE, <<"a">>, 1,
                            <<FALSE, Nil, Nil>>)
    /\ reply' = [op |-> "none"]
    /\ UNCHANGED <<codecVars, sessVars, syncVars, wire, tx>>

\* UpsertContact of the sender, with a name, a push name, both or neither.
StoreUpsertSender ==
    /\ \E name \in {EmptyStr, <<"c">>}, pushName \in {EmptyStr, <<"m">>} :
          UpsertContactCall(UserJID, name, pushName, extractNumber(UserJID), FALSE)
    /\ reply' = [op |-> "none"]
    /\ UNCHANGED <<codecVars, sessVars, syncVars, wire, tx>>

StoreGetGroupMessages == GetMessagesCall(GroupJID, DefaultLimit, 0)

InitSenderNames == InitApi({<<"ready", "authed">>})

NextSenderNames ==
    \/ StoreUpsertNamedMessage
    \/ StoreUpsertSender
    \/ StoreGetGroupMessages

SpecSenderNames == InitSenderNames /\ [][NextSenderNames]_vars

\* The non-empty sender names stored on the messages of a sender.
StoredNamesOf(senderJID) ==
    {messages[id].senderName : id \in {i \in DOMAIN messages :
                                          /\ messages[i].senderJID = senderJID
                                          /\ messages[i].senderName # EmptyStr}}

\* C22: in an answer of GetMessages, a message whose sender has a contact
\* row with a name or a push name carries the contact's name, else its push
\* name; without such a row, a message stored with an empty sender name
\* carries a name stored on another message of the same sender.
C22_SenderNameResolvedAtRead ==
    lastCall.op = "GetMessages" =>
        \A i \in DOMAIN reply.messages :
            LET row == messages[reply.messages[i].ID]
                contactName == GetContactName(contacts, row.senderJID)
            IN  IF contactName # EmptyStr
                THEN reply.messages[i].SenderName = Some(contactName)
                ELSE (row.senderName = EmptyStr /\ StoredNamesOf(row.senderJID) # {}) =>
                        \E n \in StoredNamesOf(row.senderJID) :
                            reply.messages[i].SenderName = Some(n)

-----------------------------------------------------------------------------
(* NewAppStore: opening the database and running appSchema. *)

\* The statements of appSchema in order: the object each creates and the
\* SQLite module it needs (nil for none).
AppSchema ==
    <<[object |-> "contacts", module |-> Nil],
      [object |-> "chats", module |-> Nil],
      [object |-> "messages", module |-> Nil],
      [object |-> "idx_messages_chat_ts", module |-> Nil],
      [object |-> "messages_fts", module |-> Some("fts5")],
      [object |-> "messages_fts_ai", module |-> Nil],
      [object |-> "messages_fts_ad", module |-> Nil],
      [object |-> "messages_fts_au", module |-> Nil],
      [object |-> "sync_state", module |-> Nil]>>

\* db.Exec of a script: the statements run in order and the first that
\* fails ends the call with its error (CREATE VIRTUAL TABLE fails with
\* "no such module" when the module is not compiled in).
RECURSIVE ExecScript(_, _, _)
ExecScript(script, modules, created) ==
    IF script = << >> THEN [created |-> created, err |-> FALSE]
    ELSE IF Head(script).module # Nil /\ Val(Head(script).module) \notin modules
         THEN [created |-> created, err |-> TRUE]
         ELSE ExecScript(Tail(script), modules, created \cup {Head(script).object})

\* INSERT INTO messages_fts(messages_fts) VALUES('rebuild')
RebuildIndex(t) == {<<id, t[id].body>> : id \in DOMAIN t}

\* NewAppStore in a build with the given SQLite modules, then main: a
\* failure is fatal.  lastCall keeps the modules, the objects created and
\* whether an error was returned.
NewAppStore(modules) ==
    LET run == ExecScript(AppSchema, modules, {})
    IN  /\ mainpc = "opening"
        /\ mainpc' = IF run.err THEN "fatal" ELSE "serving"
        /\ fts' = IF ~run.err /\ fts = {} /\ DOMAIN messages # {}
                  THEN RebuildIndex(messages) ELSE fts
        /\ lastCall' = [op |-> "NewAppStore", modules |-> modules,
                        created |-> run.created, err |-> run.err]
        /\ UNCHANGED <<contacts, chats, messages>>
        /\ UNCHANGED <<status, qrCode, paired, link, onceDone, handlers, reconnecting,
                       rpc, rtrace, dispatched, qrChan, syncState>>
        /\ UNCHANGED <<codecVars, syncVars, apiVars>>

\* The builds: SQLite with and without the fts5 module.
Builds == {{}, {"fts5"}}

MainNewAppStore == \E modules \in Builds : NewAppStore(modules)

\* The operations of the running bridge.
OpenedUpsertMessage == mainpc = "serving" /\ StoreUpsertNamedMessage

OpenedGetMessages == mainpc = "serving" /\ StoreGetGroupMessages

OpenedSearch == mainpc = "serving" /\ ApiSearch

\* main() before NewAppStore, with an empty database.
InitStoreOpen ==
    /\ CodecIdle /\ StoreIdle /\ SyncIdle /\ ApiIdle
    /\ status = "disconnected" /\ link = "down"
    /\ qrCode = Nil
    /\ paired = FALSE
    /\ onceDone = FALSE
    /\ handlers = 0
    /\ reconnecting = FALSE
    /\ rpc = [p \in Reconnectors |-> "idle"]
    /\ rtrace = [p \in Reconnectors |-> << >>]
    /\ mainpc = "opening"
    /\ dispatched = 0
    /\ qrChan = FALSE
    /\ syncState = [last_connected_at |-> Nil, last_disconnected_at |-> Nil]

NextStoreOpen ==
    \/ MainNewAppStore
    \/ OpenedUpsertMessage
    \/ OpenedGetMessages
    \/ OpenedSearch

SpecStoreOpen == InitStoreOpen /\ [][NextStoreOpen]_vars

\* C23: in a build without the fts5 module NewAppStore returns no error,
\* the tables of the non-search operations exist and the bridge serves.
C23_OpensWithoutIndex ==
    (lastCall.op = "NewAppStore" /\ "fts5" \notin lastCall.modules) =>
        /\ ~lastCall.err
        /\ {"contacts", "chats", "messages", "sync_state"} \subseteq lastCall.created
        /\ mainpc = "serving"

-----------------------------------------------------------------------------
(* authMiddleware in front of the routes. *)

\* The key loadOrCreateAPIKey has put in apiKey: never empty.
APIKey == <<"k">>

\* GET /health
HandleHealth ==
    /\ reply' = [op |-> "health", code |-> 200, ok |-> TRUE, timestamp |-> now]
    /\ lastCall' = [op |-> "handleHealth"]
    /\ UNCHANGED <<contacts, chats, messages, fts, wire>>
    /\ AddressFrame

\* GET /ui: the page, rendered with the API key in it
HandleUI ==
    /\ reply' = [op |-> "ui", code |-> 200, APIKey |-> APIKey]
    /\ lastCall' = [op |-> "handleUI"]
    /\ UNCHANGED <<contacts, chats, messages, fts, wire>>
    /\ AddressFrame

\* The routes of the mux that are served here.
Mux(path) ==
    CASE path = "/health" -> HandleHealth
      [] path = "/ui" -> HandleUI
      [] path = "/contacts" -> HandleContacts
      [] path = "/chats" -> HandleChats
      [] path = "/mark-read" -> HandleMarkRead(UserAPIID)

\* authMiddleware's decision for a request: pass it on, or answer 401.
authMiddleware(path, key) ==
    IF path = "/health" \/ path = "/ui" THEN "next"
    ELSE IF key = EmptyStr \/ key # APIKey THEN "unauthorized"
    ELSE "next"

\* The handler the server runs for a request with the given X-API-Key
\* header (the empty string when the header is absent).
ServeHTTP(path, key) ==
    IF authMiddleware(path, key) = "next"
    THEN Mux(path)
    ELSE /\ reply' = [op |-> "authMiddleware", code |-> 401]
         /\ lastCall' = [op |-> "authMiddleware"]
         /\ UNCHANGED <<contacts, chats, messages, fts, wire>>
         /\ AddressFrame

Paths == {"/health", "/ui", "/contacts", "/chats", "/mark-read"}

Keys == {EmptyStr, <<"x">>, APIKey}

ApiRequest == \E path \in Paths, key \in Keys : ServeHTTP(path, key)

\* A message is received in the user chat.
EventUnreadMessage ==
    /\ UnreadBelowBound(UserJID)
    /\ HandleMessage(AddressMessageEvent, Nil, Nil)
    /\ reply' = [op |-> "none"]
    /\ wire' = << >>
    /\ UNCHANGED <<codecVars, sessVars, syncVars, tx>>

InitAuth == InitApi({<<"ready", "authed">>})

NextAuth ==
    \/ StoreUpsertChat
    \/ EventUnreadMessage
    \/ ApiRequest

SpecAuth == InitAuth /\ [][NextAuth]_vars

\* C24: a request to a path other than /health whose X-API-Key is missing,
\* empty or different from the configured key is answered 401 and runs no
\* handler: the store is left as it was and nothing is sent.
C24_KeyRequired ==
    [][\A path \in Paths \ {"/health"}, key \in Keys \ {APIKey} :
          ServeHTTP(path, key) =>
              /\ reply'.code = 401
              /\ lastCall'.op = "authMiddleware"
              /\ UNCHANGED <<contacts, chats, messages, fts, wire>>]_vars

-----------------------------------------------------------------------------
(* Reconnect triggers of a paired, running session, under fair scheduling. *)

\* The steps of the goroutine p that runs reconnect().
ReconnectStep(p) ==
    \/ ReconnectTryLock(p)
    \/ ReconnectReturn(p)
    \/ ReconnectDisconnect(p)
    \/ ReconnectSetStatus(p)
    \/ ReconnectSleep(p)
    \/ ReconnectConnectOnce(p)
    \/ ReconnectConnectBranch(p)
    \/ ReconnectDial(p)
    \/ ReconnectUnlock(p)

InitReconnect == InitApi({<<"ready", "authed">>})

NextReconnect ==
    \/ \E p \in Reconnectors : ReconnectTryLock(p)
    \/ \E p \in Reconnectors : ReconnectReturn(p)
    \/ \E p \in Reconnectors : ReconnectDisconnect(p)
    \/ \E p \in Reconnectors : ReconnectSetStatus(p)
    \/ \E p \in Reconnectors : ReconnectSleep(p)
    \/ \E p \in Reconnectors : ReconnectConnectOnce(p)
    \/ \E p \in Reconnectors : ReconnectConnectBranch(p)
    \/ \E p \in Reconnectors : ReconnectDial(p)
    \/ \E p \in Reconnectors : ReconnectUnlock(p)
    \/ EvConnected
    \/ EvDisconnected
    \/ EvStreamReplaced

\* Every started goroutine keeps running; the protocol's events come as
\* they come.
SpecReconnect ==
    /\ InitReconnect
    /\ [][NextReconnect]_vars
    /\ \A p \in Reconnectors : WF_vars(ReconnectStep(p))

\* C25: once a Disconnected or StreamReplaced event has started a
\* reconnect() goroutine, some goroutine comes to call Connect().
C25_TriggerNotLost ==
    \A p \in Reconnectors :
        (rpc[p] = "try") ~> (\E q \in Reconnectors : rpc[q] = "connectOnce")

-----------------------------------------------------------------------------
(* The QR subflow of Connect() and the way into Ready. *)

\* C26: a "code" event leaves the status QR and that code stored; "success"
\* clears the stored code and leaves the status Authenticated; "timeout"
\* clears the stored code and starts reconnect(); the status becomes Ready
\* only in the handling of a Connected event.
C26_QRSubflow ==
    [][ /\ \A code \in QRCodes :
              QRCode(code) => (status' = "qr" /\ qrCode' = Some(code))
        /\ QRSuccess => (qrCode' = Nil /\ status' = "authenticated")
        /\ QRTimeout =>
              /\ qrCode' = Nil
              /\ \E p \in Reconnectors : rpc[p] = "idle" /\ rpc'[p] = "try"
        /\ (status # "ready" /\ status' = "ready") => EvConnected
      ]_vars

\* A pairing went through "code" and "success".
C26_Witness ==
    /\ status = "authenticated"
    /\ qrCode = Nil
    /\ paired
    /\ link = "open"

-----------------------------------------------------------------------------
(* The two events that end a connection. *)

\* C27: the handling of a Disconnected and of a StreamReplaced event both
\* leave the status Disconnected and the time of the event stored as
\* last_disconnected_at.
C27_DisconnectRecorded ==
    [][ (EvDisconnected \/ EvStreamReplaced) =>
            /\ status' = "disconnected"
            /\ syncState'["last_disconnected_at"] = Some(Itoa(now))
      ]_vars

\* The same of the Disconnected event alone.
DisconnectedRecorded ==
    [][ EvDisconnected =>
            /\ status' = "disconnected"
            /\ syncState'["last_disconnected_at"] = Some(Itoa(now))
      ]_vars

-----------------------------------------------------------------------------
(* GET /status and the offline gap. *)

\* The clock at start-up (seconds); the clock advances at most MaxNow
\* seconds from it.
ClockStart == 8

DigitOf(c) == CHOOSE d \in 0..9 : Itoa(d) = <<c>>

\* fmt.Sscanf(ts, "%d", &v) on a string of decimal digits
RECURSIVE Sscanf(_)
Sscanf(ts) ==
    IF Len(ts) = 0 THEN 0
    ELSE 10 * Sscanf(SubSeq(ts, 1, Len(ts) - 1)) + DigitOf(ts[Len(ts)])

\* GetSyncState(key): the stored value, or none (an error) without a row
GetSyncState(t, key) == t[key]

\* A gap reported whenever both times are known.
OfflineGapUnordered(lc, ld) ==
    IF ld # Nil /\ lc # Nil THEN Some(Val(lc) - Val(ld)) ELSE Nil

\* GetStatus(), the last statement: resp.OfflineGapSecs
OfflineGapSecs(lc, ld) ==
    IF ld # Nil /\ lc # Nil /\ Val(lc) > Val(ld)
    THEN Some(Val(lc) - Val(ld))
    ELSE Nil

ScanSyncState(t, key) ==
    IF GetSyncState(t, key) = Nil THEN Nil
    ELSE Some(Sscanf(Val(GetSyncState(t, key))))

GetStatus ==
    LET lc == ScanSyncState(syncState, "last_connected_at")
        ld == ScanSyncState(syncState, "last_disconnected_at")
    IN  [Status |-> status, Ready |-> (status = "ready"),
         LastConnectedAt |-> lc, LastDisconnectedAt |-> ld,
         OfflineGapSecs |-> OfflineGapSecs(lc, ld)]

OutageFrame ==
    UNCHANGED <<codecVars, contacts, messages, fts, wire, tx, dsp, hpc, hrun,
                resp, dpc, dloc, histReqs>>

\* GET /status
HandleStatus ==
    /\ reply' = [op |-> "status", code |-> 200, body |-> GetStatus]
    /\ UNCHANGED <<chats, lastCall, sessVars, now>>
    /\ OutageFrame

\* The connection events, with the event and its time kept in lastCall:
\* at is the time of the event, since the time of the Disconnected event it
\* follows, conn and disc the times of the last Connected and Disconnected.
OutageConnected ==
    /\ HandleConnected
    /\ lastCall' = [op |-> "Connected", at |-> now,
                    since |-> IF lastCall.op = "Disconnected"
                              THEN Some(lastCall.at) ELSE Nil,
                    conn |-> Some(now), disc |-> lastCall.disc]
    /\ reply' = [op |-> "none"]
    /\ OutageFrame /\ UNCHANGED now

OutageDisconnected ==
    /\ HandleDisconnected
    /\ lastCall' = [op |-> "Disconnected", at |-> now, since |-> Nil,
                    conn |-> lastCall.conn, disc |-> Some(now)]
    /\ reply' = [op |-> "none"]
    /\ OutageFrame /\ UNCHANGED now

OutageStreamReplaced ==
    /\ HandleStreamReplaced
    /\ lastCall' = [op |-> "StreamReplaced", at |-> now, since |-> Nil,
                    conn |-> lastCall.conn, disc |-> lastCall.disc]
    /\ reply' = [op |-> "none"]
    /\ OutageFrame /\ UNCHANGED now

OutageTick ==
    /\ now < ClockStart + MaxNow
    /\ now' = now + 1
    /\ reply' = [op |-> "none"]
    /\ UNCHANGED <<chats, lastCall, sessVars>>
    /\ OutageFrame

\* A paired bridge with a fresh database has dialled and is serving.
InitOutage ==
    /\ CodecIdle /\ ApiIdle
    /\ contacts = EmptyTable /\ chats = EmptyTable /\ messages = EmptyTable
    /\ fts = {}
    /\ lastCall = [op |-> "start", at |-> ClockStart, since |-> Nil,
                   conn |-> Nil, disc |-> Nil]
    /\ status = "connecting"
    /\ qrCode = Nil
    /\ paired = TRUE
    /\ link = "open"
    /\ onceDone = TRUE
    /\ handlers = 1
    /\ reconnecting = FALSE
    /\ rpc = [p \in Reconnectors |-> "idle"]
    /\ rtrace = [p \in Reconnectors |-> << >>]
    /\ mainpc = "serving"
    /\ dispatched = 0
    /\ qrChan = FALSE
    /\ syncState = [last_connected_at |-> Nil, last_disconnected_at |-> Nil]
    /\ dsp = [Running |-> FALSE, StartedAt |-> 0, TotalChats |-> 0,
              CurrentChat |-> EmptyStr, ChatIndex |-> 0, Results |-> << >>,
              TotalNew |-> 0]
    /\ hpc = [h \in Requests |-> "idle"]
    /\ hrun = [h \in Requests |-> FALSE]
    /\ resp = [h \in Requests |-> "none"]
    /\ dpc = [h \in Requests |-> "none"]
    /\ dloc = [h \in Requests |-> NoLocals]
    /\ histReqs = [h \in Requests |-> 0]
    /\ now = ClockStart

NextOutage ==
    \/ \E p \in Reconnectors : ReconnectTryLock(p)
    \/ \E p \in Reconnectors : ReconnectReturn(p)
    \/ \E p \in Reconnectors : ReconnectDisconnect(p)
    \/ \E p \in Reconnectors : ReconnectSetStatus(p)
    \/ \E p \in Reconnectors : ReconnectSleep(p)
    \/ \E p \in Reconnectors : ReconnectConnectOnce(p)
    \/ \E p \in Reconnectors : ReconnectConnectBranch(p)
    \/ \E p \in Reconnectors : ReconnectDial(p)
    \/ \E p \in Reconnectors : ReconnectUnlock(p)
    \/ OutageConnected
    \/ OutageDisconnected
    \/ OutageStreamReplaced
    \/ OutageTick
    \/ HandleStatus

SpecOutage == InitOutage /\ [][NextOutage]_vars

\* C28: a status query made after a Disconnected event at t1 and the
\* Connected event that follows it at t2 > t1 reports the gap t2 - t1; a
\* query made while the time of the last Connected or of the last
\* Disconnected event is missing, or the former is not after the latter,
\* reports no gap.
C28_OfflineGap ==
    reply.op = "status" =>
        /\ (lastCall.op = "Connected" /\ lastCall.since # Nil
                /\ lastCall.at > Val(lastCall.since))
              => reply.body.OfflineGapSecs = Some(lastCall.at - Val(lastCall.since))
        /\ (lastCall.conn = Nil \/ lastCall.disc = Nil
                \/ Val(lastCall.conn) <= Val(lastCall.disc))
              => reply.body.OfflineGapSecs = Nil

\* The outage from 8 to 10 is reported as two seconds.
C28_Witness ==
    /\ reply.op = "status"
    /\ lastCall.op = "Connected"
    /\ lastCall.since = Some(ClockStart)
    /\ reply.body.OfflineGapSecs = Some(2)
    /\ reply.body.LastConnectedAt = Some(10)

-----------------------------------------------------------------------------
(* Deep sync runs while history arrives. *)

\* Messages the history responses may add while deep syncs run.
MaxHistoryArrivals == 6

\* handleHistorySync stores one more message of the group chat.
HistoryArrives ==
    /\ Cardinality(DOMAIN messages) < MaxHistoryArrivals
    /\ \E chat \in {GroupJID} :
          UpsertMessageCall(formatMessageID(FALSE, toAPIJIDString(chat),
                                <<"H">> \o Itoa(Cardinality(DOMAIN messages))),
                            chat, chat, EmptyStr, FALSE, <<"a">>, 1,
                            <<FALSE, Nil, Nil>>)
    /\ UNCHANGED <<codecVars, sessVars, syncVars, apiVars>>

\* One POST /deep-sync request is made.
OneRequest == {Min(Requests)}

NextDeepRounds ==
    \/ \E h \in OneRequest : HandleDeepSyncRead(h)
    \/ \E h \in OneRequest : HandleDeepSyncRespond(h)
    \/ \E h \in OneRequest : DeepSyncGuard(h)
    \/ \E h \in OneRequest : DeepSyncList(h)
    \/ \E h \in OneRequest : DeepSyncTotal(h)
    \/ \E h \in OneRequest : DeepSyncChat(h)
    \/ \E h \in OneRequest : DeepSyncCount(h)
    \/ \E h \in OneRequest : DeepSyncRound(h)
    \/ \E h \in OneRequest : DeepSyncRecount(h)
    \/ \E h \in OneRequest : DeepSyncResult(h)
    \/ \E h \in OneRequest : DeepSyncDefer(h)
    \/ HistoryArrives

SpecDeepRounds == InitDeepSync /\ [][NextDeepRounds]_vars

CurrentJID(h) == dloc[h].chatJIDs[dloc[h].i]

-----------------------------------------------------------------------------
(* The deep-sync progress record over several runs, with chats deleted     *)
(* between and during them.                                                 *)

\* DELETE /chats/:id of one of the two syncable chats
DeepDeleteChat ==
    \E jid \in {UserJID, GroupJID} : HandleDeleteChat(toAPIJIDString(jid))

NextDeepProgress ==
    \/ \E h \in Requests : HandleDeepSyncRead(h)
    \/ \E h \in Requests : HandleDeepSyncRespond(h)
    \/ \E h \in Requests : DeepSyncGuard(h)
    \/ \E h \in Requests : DeepSyncList(h)
    \/ \E h \in Requests : DeepSyncTotal(h)
    \/ \E h \in Requests : DeepSyncChat(h)
    \/ \E h \in Requests : DeepSyncCount(h)
    \/ \E h \in Requests : DeepSyncRound(h)
    \/ \E h \in Requests : DeepSyncRecount(h)
    \/ \E h \in Requests : DeepSyncResult(h)
    \/ \E h \in Requests : DeepSyncDefer(h)
    \/ MessageArrives
    \/ DeepDeleteChat

SpecDeepProgress == InitDeepSync /\ [][NextDeepProgress]_vars

RECURSIVE SumNew(_)
SumNew(results) ==
    IF results = << >> THEN 0
    ELSE results[1].New + SumNew(Tail(results))

\* C30: whenever the progress record can be read, TotalNew is the sum of
\* New over Results and every result has New = After - Before; when a run
\* ends after its loop over the chats, Results holds one entry per listed
\* chat, in the listed order, and ChatIndex equals TotalChats.
C30_ProgressRecord ==
    [][ /\ dsp'.TotalNew = SumNew(dsp'.Results)
        /\ \A k \in DOMAIN dsp'.Results :
              dsp'.Results[k].New = dsp'.Results[k].After - dsp'.Results[k].Before
        /\ \A h \in Requests : (dpc[h] = "defer" /\ dpc'[h] = "returned") =>
              /\ Len(dsp.Results) = Len(dloc[h].chatJIDs)
              /\ \A k \in DOMAIN dsp.Results :
                    dsp.Results[k].ChatJID = toAPIJIDString(dloc[h].chatJIDs[k])
              /\ dsp'.ChatIndex = dsp'.TotalChats
      ]_vars

\* The same without the comparison of ChatIndex and TotalChats.
ProgressRecordSums ==
    [][ /\ dsp'.TotalNew = SumNew(dsp'.Results)
        /\ \A k \in DOMAIN dsp'.Results :
              dsp'.Results[k].New = dsp'.Results[k].After - dsp'.Results[k].Before
        /\ \A h \in Requests : (dpc[h] = "defer" /\ dpc'[h] = "returned") =>
              /\ Len(dsp.Results) = Len(dloc[h].chatJIDs)
              /\ \A k \in DOMAIN dsp.Results :
                    dsp.Results[k].ChatJID = toAPIJIDString(dloc[h].chatJIDs[k])
      ]_vars

-----------------------------------------------------------------------------
(* Deep sync under fair scheduling. *)

\* The steps of the DeepSync goroutine of request h.
DeepSyncStep(h) ==
    \/ DeepSyncGuard(h)
    \/ DeepSyncList(h)
    \/ DeepSyncListFails(h)
    \/ DeepSyncTotal(h)
    \/ DeepSyncChat(h)
    \/ DeepSyncCount(h)
    \/ DeepSyncRound(h)
    \/ DeepSyncRecount(h)
    \/ DeepSyncResult(h)
    \/ DeepSyncDefer(h)

\* A first POST /deep-sync request and a later one.
FairRequests == {h \in Requests : h <= Min(Requests) + 1}

NextDeepFair ==
    \/ \E h \in FairRequests : HandleDeepSyncRead(h)
    \/ \E h \in FairRequests : HandleDeepSyncRespond(h)
    \/ \E h \in FairRequests : DeepSyncGuard(h)
    \/ \E h \in FairRequests : DeepSyncList(h)
    \/ \E h \in FairRequests : DeepSyncListFails(h)
    \/ \E h \in FairRequests : DeepSyncTotal(h)
    \/ \E h \in FairRequests : DeepSyncChat(h)
    \/ \E h \in FairRequests : DeepSyncCount(h)
    \/ \E h \in FairRequests : DeepSyncRound(h)
    \/ \E h \in FairRequests : DeepSyncRecount(h)
    \/ \E h \in FairRequests : DeepSyncResult(h)
    \/ \E h \in FairRequests : DeepSyncDefer(h)
    \/ MessageArrives

\* A started goroutine keeps running; requests and messages come as they
\* come.
SpecDeepFair ==
    /\ InitDeepSync
    /\ [][NextDeepFair]_vars
    /\ \A h \in FairRequests : WF_vars(DeepSyncStep(h))

\* C31: a DeepSync execution that has passed the guard comes to its return,
\* and the step that returns, after the loop or after a failed listing of
\* the chats, leaves Running false and CurrentChat empty.
C31_DeepSyncFinishes ==
    /\ \A h \in Requests : PastGuard(h) ~> (dpc[h] = "returned")
    /\ [][ \A h \in Requests :
              (PastGuard(h) /\ dpc'[h] = "returned") =>
                  (~dsp'.Running /\ dsp'.CurrentChat = EmptyStr) ]_vars
    /\ [][ \A h \in Requests :
              (dpc[h] = "guard" /\ dpc'[h] = "list") => ~dsp.Running ]_vars

\* A second run has started after a run that ended on a failed listing.
C31_Witness ==
    \E h, g \in Requests :
        /\ dpc[h] = "returned" /\ histReqs[h] = 0 /\ dsp.TotalChats = 0
        /\ PastGuard(g) /\ dsp.Running

-----------------------------------------------------------------------------
(* The last-message summary of a HistorySync conversation. *)

\* Messages a conversation carries at most.
MaxConvLen == 3

\* Messages of the user chat: a text, another text, or an image without a
\* caption, at any timestamp.
TrackedMessages ==
    [key : {Some([remoteJID |-> UserJID, fromMe |-> FALSE, id |-> <<"A">>,
                  participant |-> EmptyStr])},
     timestamp : 1..MaxTs, pushName : {EmptyStr},
     message : {Some(TextMessage(<<"a">>)), Some(TextMessage(<<"b">>)),
                Some(ImageMessage(EmptyStr))}]

TrackedConversations ==
    UNION {[1..n -> TrackedMessages] : n \in 0..MaxConvLen}

\* The loop of handleHistorySync over one conversation's messages;
\* lastCall keeps the messages and the pair that goes to UpsertChat.
TrackConversation ==
    /\ \E msgs \in TrackedConversations :
          lastCall' = [op |-> "TrackLatest", msgs |-> msgs,
                       last |-> TrackLatest(msgs, [body |-> Nil, ts |-> Nil])]
    /\ UNCHANGED <<contacts, chats, messages, fts>>
    /\ UNCHANGED <<codecVars, sessVars, syncVars, apiVars>>

InitTrack == InitApi({<<"ready", "authed">>})

NextTrack == TrackConversation

SpecTrack == InitTrack /\ [][NextTrack]_vars

MaxTimestamp(msgs) ==
    CHOOSE t \in {msgs[i].timestamp : i \in DOMAIN msgs} :
        \A i \in DOMAIN msgs : msgs[i].timestamp <= t

\* The pair is the body (none when empty) and timestamp of message i.
PairOf(msgs, i, last) ==
    /\ last.ts = Some(msgs[i].timestamp)
    /\ last.body = IF extractMessageBody(msgs[i].message) = EmptyStr THEN Nil
                   ELSE Some(extractMessageBody(msgs[i].message))

\* C32: the preview and the timestamp that go to UpsertChat for a
\* conversation are the body and the timestamp of one message, a message
\* with the conversation's maximum timestamp.
C32_SummaryFromOneMessage ==
    (lastCall.op = "TrackLatest" /\ lastCall.msgs # << >>) =>
        \E i \in DOMAIN lastCall.msgs :
            /\ lastCall.msgs[i].timestamp = MaxTimestamp(lastCall.msgs)
            /\ PairOf(lastCall.msgs, i, lastCall.last)

\* The same of conversations in which every message has a body.
SummaryOfTextConversations ==
    (lastCall.op = "TrackLatest" /\ lastCall.msgs # << >>
        /\ \A i \in DOMAIN lastCall.msgs :
              extractMessageBody(lastCall.msgs[i].message) # EmptyStr) =>
        \E i \in DOMAIN lastCall.msgs :
            /\ lastCall.msgs[i].timestamp = MaxTimestamp(lastCall.msgs)
            /\ PairOf(lastCall.msgs, i, lastCall.last)

-----------------------------------------------------------------------------
(* Shutdown: main() from the termination signal to its return. *)

\* Positions of main() at which the HTTP server still accepts requests:
\* before the signal, after it, and after wc.Disconnect().
HttpOpen == {"serving", "signalled", "disconnected"}

\* The process has not exited.
ProcessRuns == mainpc # "exited"

ShutdownFrame ==
    UNCHANGED <<codecVars, storeVars, syncVars, apiVars, qrCode, paired, onceDone,
                handlers, reconnecting, rpc, rtrace, dispatched, qrChan, syncState>>

\* sig := <-quit
MainSignal ==
    /\ mainpc = "serving"
    /\ mainpc' = "signalled"
    /\ UNCHANGED <<status, link>>
    /\ ShutdownFrame

\* wc.Disconnect(): client.Disconnect() and setStatus(StatusDisconnected)
MainDisconnect ==
    /\ mainpc = "signalled"
    /\ link' = "down"
    /\ status' = "disconnected"
    /\ mainpc' = "disconnected"
    /\ ShutdownFrame

\* httpServer.Shutdown(ctx), with its 5-second deadline
MainShutdownHTTP ==
    /\ mainpc = "disconnected"
    /\ mainpc' = "stopped"
    /\ UNCHANGED <<status, link>>
    /\ ShutdownFrame

\* main returns: the deferred appStore.Close(), and the process exits
MainCloseStore ==
    /\ mainpc = "stopped"
    /\ mainpc' = "exited"
    /\ UNCHANGED <<status, link>>
    /\ ShutdownFrame

\* A request is served: GET /status
ServeStatus == mainpc \in HttpOpen /\ HandleStatus

InitShutdown == InitApi({<<"ready", "authed">>})

\* The goroutines and the protocol's events, while the process runs.
ShutdownReconnect(p) == ProcessRuns /\ ReconnectStep(p)

ShutdownEvent == ProcessRuns /\ (EvConnected \/ EvDisconnected \/ EvStreamReplaced)

NextShutdown ==
    \/ MainSignal
    \/ MainDisconnect
    \/ MainShutdownHTTP
    \/ MainCloseStore
    \/ ServeStatus
    \/ ShutdownEvent
    \/ \E p \in Reconnectors : ShutdownReconnect(p)

SpecShutdown == InitShutdown /\ [][NextShutdown]_vars

\* C33: after the signal the HTTP server is stopped first, then the
\* protocol client is disconnected, then the store is closed; no request
\* is served once the protocol client has been disconnected.
C33_ShutdownOrder ==
    [][ /\ MainDisconnect => mainpc \notin HttpOpen
        /\ MainCloseStore => mainpc' = "exited"
        /\ ServeStatus => mainpc \notin {"disconnected", "stopped", "exited"}
      ]_vars

\* The part of the order the code keeps: the store is closed last, after
\* the server has stopped and the client has been disconnected.
StoreClosedLast ==
    [][ /\ MainCloseStore => mainpc = "stopped"
        /\ MainShutdownHTTP => mainpc = "disconnected"
        /\ ServeStatus => mainpc \notin {"stopped", "exited"}
      ]_vars

\* C38: once the Disconnect() of the shutdown has returned, no goroutine
\* calls Connect() and the connection is not opened again.
C38_NoConnectAfterShutdown ==
    [][ (mainpc \in {"disconnected", "stopped", "exited"}) =>
            /\ \A p \in Reconnectors : ~ReconnectConnectOnce(p)
            /\ link' = "down"
      ]_vars

-----------------------------------------------------------------------------
(* Message events with bodies around the preview limit. *)

\* A body of n characters.
BodyOfLen(n) == [i \in 1..n |-> "x"]

\* Body lengths: none, short, and the lengths around the limit.
PreviewBodyLens == {0, 1, PreviewLimit - 1, PreviewLimit, PreviewLimit + 1, PreviewLimit + 2}

PreviewMessageEvents ==
    { evt \in [chat : {UserJID}, sender : {UserJID, OwnJID}, fromMe : BOOLEAN,
               timestamp : Timestamps, id : {<<"A">>}, pushName : {EmptyStr},
               message : {Some(TextMessage(BodyOfLen(n))) : n \in PreviewBodyLens}] :
        evt.sender = (IF evt.fromMe THEN OwnJID ELSE UserJID) }

EventPreviewMessage ==
    /\ \E evt \in PreviewMessageEvents :
          /\ evt.fromMe \/ UnreadBelowBound(evt.chat)
          /\ HandleMessage(evt, Nil, Nil)
    /\ UNCHANGED <<codecVars, sessVars, syncVars, apiVars>>

NextPreview == EventPreviewMessage

SpecPreview == InitEvents /\ [][NextPreview]_vars

\* C34: the preview stored on a chat has at most 100 characters.
C34_PreviewAtMost100 ==
    \A jid \in DOMAIN chats :
        chats[jid].lastMessage # Nil => Len(Val(chats[jid].lastMessage)) <= 100

\* The preview is at most three characters longer than the limit, and
\* longer than the limit only when the body was.
PreviewAtMost103 ==
    /\ \A jid \in DOMAIN chats :
          chats[jid].lastMessage # Nil => Len(Val(chats[jid].lastMessage)) <= 103
    /\ lastCall.op = "Message" =>
          (Len(extractMessageBody(lastCall.evt.message)) <= 100 =>
              Len(truncate(extractMessageBody(lastCall.evt.message), PreviewLimit)) <= 100)

-----------------------------------------------------------------------------
(* GET /qr against the connection status. *)

\* GetQR(): the image of the stored code, or a message for the status.
\* generateQRPNG is taken to succeed.
GetQR ==
    IF qrCode # Nil
    THEN [QR |-> Some(<<"data:image/png;base64,", Val(qrCode)>>), Message |-> Nil]
    ELSE [QR |-> Nil,
          Message |-> Some(CASE status = "ready" -> "Already connected"
                             [] status = "connecting" -> "Connecting..."
                             [] status = "authenticated" ->
                                  "Authenticated, waiting for ready state"
                             [] OTHER -> "No QR code available")]

\* C35: a QR string is stored only while the status is QR; in every other
\* status the QR query returns no image.
C35_QROnlyInStatusQR ==
    /\ qrCode # Nil => status = "qr"
    /\ status # "qr" => GetQR.QR = Nil

\* The stored code is cleared by success and timeout, and a code is stored
\* only by a code event, which sets the status QR.
QRStoredByCodeEvents ==
    [][ /\ (qrCode = Nil /\ qrCode' # Nil) => status' = "qr"
        /\ (status # "authenticated" /\ status' = "authenticated") => qrCode' = Nil
      ]_vars

\* ---------------------------------------------------------------------
\* Status after a failed connect
\* ---------------------------------------------------------------------

\* a call of client.Connect() is being made by main or by a reconnect cycle
Dialling ==
    mainpc = "dial" \/ \E p \in Reconnectors : rpc[p] = "dial"

\* C36: the status is Connecting only while a connection attempt is in
\* progress: client.Connect() is being called, or it has opened the
\* connection whose Connected event is still to be handled.  After a
\* Connect() that returned an error in a running bridge the status is not
\* left at Connecting.
C36_ConnectingOnlyWhileAttempting ==
    (ProcessRuns /\ mainpc # "fatal" /\ status = "connecting") =>
        (Dialling \/ link = "open")

\* what the code does keep: the status is Connecting only after Connect()
\* found a stored session, and the reconnect lock is free once no goroutine
\* is inside the cycle
ConnectingOnlyWhenPaired ==
    /\ status = "connecting" => paired
    /\ (\A p \in Reconnectors : ~InCycle(p)) => ~reconnecting

\* ---------------------------------------------------------------------
\* The progress record read while a run is in progress
\* ---------------------------------------------------------------------

\* what handleDeepSyncStatus reads of the run h that is past the guard:
\* before the list is stored no chat is counted, then TotalChats is the
\* number of listed chats; ChatIndex is the place of the chat being synced,
\* or of the one just finished
RecordOfRun(h) ==
    /\ dsp.TotalChats = IF dpc[h] \in {"list", "total"} THEN 0
                        ELSE Len(dloc[h].chatJIDs)
    /\ dsp.ChatIndex = IF dpc[h] \in {"list", "total"} THEN 0
                       ELSE IF dpc[h] = "chat" THEN dloc[h].i - 1
                       ELSE dloc[h].i

\* the first half of C37 alone
ChatIndexWithinTotal ==
    dsp.Running => dsp.ChatIndex <= dsp.TotalChats

\* C37: while Running is true, ChatIndex <= TotalChats and both are those
\* of the run in progress; TotalChats and ChatIndex of an earlier run are
\* not visible after the new run has reset Results and TotalNew.
C37_RecordOfCurrentRun ==
    dsp.Running =>
        /\ dsp.ChatIndex <= dsp.TotalChats
        /\ \A h \in Requests : PastGuard(h) /\ dpc[h] # "defer" => RecordOfRun(h)

\* the same for the first run of the process, which has no earlier run
FirstRunRecord ==
    (\A g \in Requests : dpc[g] # "returned") => C37_RecordOfCurrentRun

\* ---------------------------------------------------------------------
\* A Message event delivered twice
\* ---------------------------------------------------------------------

\* Message events of one chat, sent and received, text and media, with the
\* sender's name resolved the same way at every delivery
EventDelivered ==
    /\ \E evt \in MessageEvents :
          /\ evt.sender = (IF evt.fromMe THEN OwnJID ELSE evt.chat)
          /\ evt.fromMe \/ UnreadBelowBound(evt.chat)
          /\ HandleMessage(evt, Nil, Nil)
    /\ UNCHANGED <<codecVars, sessVars, syncVars, apiVars>>

NextRedelivery == EventDelivered

SpecRedelivery == InitEvents /\ [][NextRedelivery]_vars

\* the step handles the Message event that the step before it handled
Redelivery ==
    /\ lastCall.op = "Message"
    /\ lastCall'.op = "Message"
    /\ lastCall'.evt = lastCall.evt

\* C39: handling a Message event again, right after it was handled and
\* stored, changes nothing in the store: the message row, the chat's
\* preview and timestamp and its unreadCount stay as the first delivery
\* left them.
C39_RedeliveryChangesNothing ==
    [][ Redelivery => (messages' = messages /\ chats' = chats /\ fts' = fts) ]_vars

\* the same apart from the unreadCount of a received message's chat
RedeliveryKeepsRowAndPreview ==
    [][ Redelivery =>
           LET c == lastCall.evt.chat
           IN  /\ messages' = messages
               /\ fts' = fts
               /\ c \in DOMAIN chats /\ DOMAIN chats' = DOMAIN chats
               /\ [chats' EXCEPT ![c].unreadCount = chats[c].unreadCount] = chats
               /\ chats'[c].unreadCount =
                     chats[c].unreadCount + (IF lastCall.evt.fromMe THEN 0 ELSE 1)
      ]_vars

=============================================================================
